---- MODULE Spec2Model ----
(***************************************************************************)
(* NOTRAN toolchain: the compiler (notcmp.c) and the bytecode interpreter  *)
(* (notint.c), modelled as state machines.                                 *)
(*                                                                         *)
(* Compiler: one action per step of process_file / process_line: a line    *)
(* is begun (comment, identifier or blank start), its specifications are   *)
(* handled one keyword or note at a time, the line is ended, and main()    *)
(* finishes after the file loop.  Handlers are operators over a record c   *)
(* holding the fields of compiler_t they read and write; an action applies *)
(* the whole handler and stores the record back into the variables.        *)
(***************************************************************************)
EXTENDS Integers, Sequences, FiniteSets, TLC

(* ---------------------------------------------------------------------- *)
(* Program constants (notcmp.c)                                            *)
(* ---------------------------------------------------------------------- *)
MAX_SYMBOLS == 100
MAX_CODE_SIZE == 8192
NUM_VOICES == 4
INACTIVE_VOICE_DURATION == 255
ACTIVE_VOICE_DURATION == 0
MIN_PITCH == 1
MAX_PITCH == 61
MIN_WAVEFORM == 1
MAX_WAVEFORM == 16
MIN_TEMPO == 1
MAX_TEMPO == 255
OP_END == 0
OP_TEMPO == 16
OP_JSR == 32
OP_RTS == 48
OP_JMP == 64
OP_SET_VOICES == 80
OP_LONG_NOTE == 96
OP_REST_MASK == 128
OP_VOICE_DEACTIVATE == 128
OP_VOICE_ACTIVATE == 144

(* ---------------------------------------------------------------------- *)
(* Bounds of the model                                                     *)
(* ---------------------------------------------------------------------- *)
\* specifications (keywords and notes) in a source file of Spec
MaxSpecs == 3
\* specifications in a source file of SpecEvent
MaxEventSpecs == 6
\* lines in a source file of Spec
MaxLines == 2
\* specifications still handled on a line after the first error or after END
MaxTail == 1
\* specifications in a source file of SpecRT
MaxRTSpecs == 6
\* specifications in a source file of SpecNote
MaxNoteSpecs == 3
\* specifications in a source file of SpecCtl
MaxCtlSpecs == 4
\* specifications in a source file of SpecLine
MaxLineSpecs == 5
\* specifications that follow the filler in a source file of SpecFull
MaxFullSpecs == 3
\* specifications in a source file of SpecJump
MaxJumpSpecs == 4
MaxSamples == 2400

Voices == 0 .. (NUM_VOICES - 1)

VARIABLES
    base_address,    \* compiler_t.base_address (uint16_t, option -a)
    code,            \* compiler_t.code[0 .. code_size-1]; code_size = Len(code)
    symbols,         \* compiler_t.symbols[0 .. symbol_count-1]
    voices,          \* compiler_t.voices
    event_building,  \* compiler_t.event_building
    voice_ptr,       \* compiler_t.voice_ptr
    sub_address,     \* compiler_t.sub_address
    end_flag,        \* compiler_t.end_flag
    error_flag,      \* compiler_t.error_flag
    cpc,             \* where the compiler is: "file", "line", "done", "exit",
                     \* or "undefined" once a store outside code[] has hit
                     \* another object
    object_written,  \* main() reached objfile_write
    exit_status,     \* the exit status of the process, -1 while it runs
    errs,            \* error codes report_error printed during the last step
    last,            \* the last step: its kind, input and code_size before it
    source,          \* the source file as read so far: the kind and the input
                     \* of every step
    close_snap,      \* voice durations complete_event saw before subtracting
    note_log,        \* notes scheduled so far: voice index, time units, pitch
    specs_left,      \* specifications the rest of the source file may hold
    lines_left,      \* lines the rest of the source file may hold
    tail_left,       \* specifications a line may still hold after the first
                     \* error or END
    ops_used,        \* the kinds of specification handled so far
    wav_pending,     \* per voice: the waveform number of an accepted WAV that
                     \* no pitched note of the voice has followed yet, else 0
    abs_pending,     \* an ABS given between events has not yet been followed
                     \* by the end of an event
    stray            \* the indices of the stores code[idx] = ... made so far
                     \* with idx >= MAX_CODE_SIZE

cvars == <<base_address, code, symbols, voices, event_building, voice_ptr,
           sub_address, end_flag, error_flag, cpc, object_written, exit_status,
           errs, last, source,
           close_snap, note_log, specs_left, lines_left, tail_left, ops_used,
           wav_pending, abs_pending, stray>>

code_size == Len(code)
symbol_count == Len(symbols)

(* ---------------------------------------------------------------------- *)
(* The compiler record the handlers work on                                *)
(* ---------------------------------------------------------------------- *)
NoSnap == <<>>

CompilerRec ==
    [code |-> code, symbols |-> symbols, voices |-> voices,
     event_building |-> event_building, voice_ptr |-> voice_ptr,
     sub_address |-> sub_address, end_flag |-> end_flag,
     error_flag |-> error_flag, errs |-> <<>>, exited |-> FALSE,
     close_snap |-> NoSnap, note_log |-> note_log, stray |-> {}]

\* an error report that prints the message and sets no flag
report_error_unlatched(c, e) ==
    [c EXCEPT !.errs = Append(@, e)]

report_error(c, e) ==
    [c EXCEPT !.errs = Append(@, e), !.error_flag = TRUE]

emit_byte(c, byte) ==
    IF Len(c.code) >= MAX_CODE_SIZE
    THEN report_error(c, "ERR_CODE_OVERFLOW")
    ELSE [c EXCEPT !.code = Append(@, byte % 256)]

\* the word with its high byte first
emit_word_high_first(c, word) ==
    emit_byte(emit_byte(c, (word \div 256) % 256), word % 256)

emit_word(c, word) ==
    emit_byte(emit_byte(c, word % 256), (word \div 256) % 256)

(* ---------------------------------------------------------------------- *)
(* Utility functions                                                       *)
(* ---------------------------------------------------------------------- *)
is_valid_voice(voice_num) == voice_num >= 1 /\ voice_num <= NUM_VOICES

is_valid_waveform(waveform) == waveform >= MIN_WAVEFORM /\ waveform <= MAX_WAVEFORM

\* a range check that lets pitch 62 through
is_valid_pitch_wide(pitch) == pitch >= MIN_PITCH /\ pitch <= MAX_PITCH + 1

is_valid_pitch(pitch) == pitch >= MIN_PITCH /\ pitch <= MAX_PITCH

\* tok is the value of a digit string; the result is <<c, val>>.  A value
\* above 255 is reported and read as 0.
parse_numeric_arg(c, tok) ==
    IF tok > 255
    THEN <<report_error(c, "ERR_ARG_OUT_OF_RANGE"), 0>>
    ELSE <<c, tok>>

(* ---------------------------------------------------------------------- *)
(* Symbol table                                                            *)
(* ---------------------------------------------------------------------- *)
add_symbol(c, id, addr) ==
    IF Len(c.symbols) >= MAX_SYMBOLS
    THEN report_error(c, "ERR_SYMBOL_TABLE_OVERFLOW")
    ELSE [c EXCEPT !.symbols = Append(@, [id |-> id % 256, address |-> addr % 65536])]

\* a lookup that finds nothing
find_symbol_never(c, id) == FALSE

find_symbol(c, id) ==
    \E i \in 1 .. Len(c.symbols) : c.symbols[i].id = id

\* the address of the first entry with this id (find_symbol's *addr)
symbol_address(c, id) ==
    LET i == CHOOSE k \in 1 .. Len(c.symbols) :
                 /\ c.symbols[k].id = id
                 /\ \A j \in 1 .. (k - 1) : c.symbols[j].id # id
    IN  c.symbols[i].address

(* ---------------------------------------------------------------------- *)
(* Note parsing                                                            *)
(* ---------------------------------------------------------------------- *)
Letters == <<"A", "B", "C", "D", "E", "F", "G">>

LetterIndex(l) == CHOOSE i \in 1 .. 7 : Letters[i] = l

pitch_table ==
    <<9, 10, 11,  11, 12, 1,  12, 1, 2,  2, 3, 4,  4, 5, 6,  5, 6, 7,  7, 8, 9>>

\* the chromatic slot of a letter A..G with accidental "", "#" or "@"
parse_note_pitch(letter, acc) ==
    LET note_value == LetterIndex(letter) * 3
                        + (IF acc = "#" THEN 1 ELSE IF acc = "@" THEN -1 ELSE 0)
    IN  pitch_table[(note_value - 2) + 1]

duration_letters == <<"W", "H", "Q", "E", "S", "T">>

code_table ==
    <<0, 1, 0,  2, 3, 5,  4, 6, 8,  7, 9, 11,  10, 12, 14,  13, 15, 0>>

time_table ==
    <<192, 144, 96,  72, 64, 48,  36, 32, 24,  18, 16, 12,  9, 8, 6>>

\* the duration code of a duration letter with modifier "", "." or "3";
\* 0 stands for the combinations parse_duration rejects
duration_code_of(dur, mod) ==
    LET pos == (CHOOSE i \in 1 .. 6 : duration_letters[i] = dur) - 1
        dur_idx == pos * 3 + 1
                     + (IF mod = "." THEN -1 ELSE IF mod = "3" THEN 1 ELSE 0)
    IN  code_table[dur_idx + 1]

\* the time units of the next shorter duration
duration_time_of_next(dcode) == time_table[IF dcode < 15 THEN dcode + 1 ELSE 15]

duration_time_of(dcode) == time_table[(dcode - 1) + 1]

(* ---------------------------------------------------------------------- *)
(* Voice state management                                                  *)
(* ---------------------------------------------------------------------- *)
activate_voice(c, voice_idx) ==
    [c EXCEPT !.voices[voice_idx].duration = ACTIVE_VOICE_DURATION]

deactivate_voice(c, voice_idx) ==
    [c EXCEPT !.voices[voice_idx].duration = INACTIVE_VOICE_DURATION]

any_voice_active(c) ==
    \E i \in Voices : c.voices[i].duration # INACTIVE_VOICE_DURATION

\* a search that returns the highest voice needing a note
find_last_voice_needing_note(c, start_idx) ==
    IF \E i \in start_idx .. (NUM_VOICES - 1) : c.voices[i].duration = 0
    THEN CHOOSE i \in start_idx .. (NUM_VOICES - 1) :
             /\ c.voices[i].duration = 0
             /\ \A j \in (i + 1) .. (NUM_VOICES - 1) : c.voices[j].duration # 0
    ELSE NUM_VOICES

\* a search that looks at voice 1 alone
find_first_voice_only(c, start_idx) ==
    IF start_idx = 0 /\ c.voices[0].duration = 0 THEN 0 ELSE NUM_VOICES

find_next_voice_needing_note(c, start_idx) ==
    IF \E i \in start_idx .. (NUM_VOICES - 1) : c.voices[i].duration = 0
    THEN CHOOSE i \in start_idx .. (NUM_VOICES - 1) :
             /\ c.voices[i].duration = 0
             /\ \A j \in start_idx .. (i - 1) : c.voices[j].duration # 0
    ELSE NUM_VOICES

RECURSIVE min_scan(_, _, _)
min_scan(c, i, min_duration) ==
    IF i >= NUM_VOICES THEN min_duration
    ELSE IF c.voices[i].duration # INACTIVE_VOICE_DURATION
              /\ c.voices[i].duration < min_duration
         THEN min_scan(c, i + 1, c.voices[i].duration)
         ELSE min_scan(c, i + 1, min_duration)

calculate_min_voice_duration(c) == min_scan(c, 0, INACTIVE_VOICE_DURATION)

\* a close that leaves the durations as they are
subtract_nothing(c, duration) == c

subtract_duration_from_voices(c, duration) ==
    [c EXCEPT !.voices =
        [i \in Voices |->
            IF c.voices[i].duration # INACTIVE_VOICE_DURATION
            THEN [c.voices[i] EXCEPT !.duration = (@ - duration) % 256]
            ELSE c.voices[i]]]

complete_event(c) ==
    LET min_duration == calculate_min_voice_duration(c)
        snap == [i \in Voices |-> c.voices[i].duration]
    IN  [subtract_duration_from_voices(c, min_duration)
            EXCEPT !.event_building = FALSE, !.close_snap = snap]

(* ---------------------------------------------------------------------- *)
(* Note event processing                                                   *)
(* ---------------------------------------------------------------------- *)
emit_rest(c, duration_code) == emit_byte(c, OP_REST_MASK + duration_code)

\* a short note with the duration code above the pitch difference
emit_short_note_swapped(c, pitch_diff, duration_code) ==
    emit_byte(c, (duration_code * 16) + (pitch_diff % 16))

emit_short_note(c, pitch_diff, duration_code) ==
    emit_byte(c, ((pitch_diff % 16) * 16) + duration_code)

\* a long note without its waveform and duration byte
emit_long_note_two_bytes(c, pitch, waveform, duration_code) ==
    emit_byte(emit_byte(c, OP_LONG_NOTE), pitch * 2)

emit_long_note(c, pitch, waveform, duration_code) ==
    emit_byte(emit_byte(emit_byte(c, OP_LONG_NOTE), pitch * 2),
              (waveform * 16) + duration_code)

\* every pitched note in long form
never_short_encoding(c, voice_idx, new_pitch) == FALSE

\* the short form whenever the pitch is near, use_absolute or not
short_whenever_near(c, voice_idx, new_pitch) ==
    /\ c.voices[voice_idx].pitch # 0
    /\ new_pitch - c.voices[voice_idx].pitch >= -7
    /\ new_pitch - c.voices[voice_idx].pitch <= 7

should_use_short_encoding(c, voice_idx, new_pitch) ==
    IF c.voices[voice_idx].use_absolute \/ c.voices[voice_idx].pitch = 0
    THEN FALSE
    ELSE LET diff == new_pitch - c.voices[voice_idx].pitch
         IN  diff >= -7 /\ diff <= 7

\* lines 788-818: the rest or the pitched note is emitted on voice_idx
emit_note_for_voice(c, voice_idx, note) ==
    IF note.pitch = 0
    THEN emit_rest(c, note.duration_code)
    ELSE LET oct0 == IF note.octave = 0 THEN c.voices[voice_idx].octave
                     ELSE note.octave
             c1 == IF oct0 = 0 THEN report_error(c, "ERR_PITCH_OUT_OF_RANGE") ELSE c
             octave == IF oct0 = 0 THEN 4 ELSE oct0
             c2 == [c1 EXCEPT !.voices[voice_idx].octave = octave]
             pitch0 == octave * 12 + note.pitch - 12
             c3 == IF is_valid_pitch(pitch0) THEN c2
                   ELSE report_error(c2, "ERR_PITCH_OUT_OF_RANGE")
             absolute_pitch == IF is_valid_pitch(pitch0) THEN pitch0 ELSE MAX_PITCH
             c4 == IF should_use_short_encoding(c3, voice_idx, absolute_pitch)
                   THEN emit_short_note(c3, absolute_pitch - c3.voices[voice_idx].pitch,
                                        note.duration_code)
                   ELSE emit_long_note(c3, absolute_pitch,
                                       c3.voices[voice_idx].waveform,
                                       note.duration_code)
         IN  [c4 EXCEPT !.voices[voice_idx].pitch = absolute_pitch]

\* lines 820-833: the voice takes the note's duration and the event is
\* closed when no later voice needs a note
update_voice_and_close(c, voice_idx, note) ==
    LET c1 == [c EXCEPT !.voices[voice_idx].duration = note.duration_time,
                        !.voices[voice_idx].use_absolute = FALSE,
                        !.note_log = Append(@,
                            [voice |-> voice_idx, dur |-> note.duration_time,
                             pitch |-> IF note.pitch = 0 THEN 0
                                       ELSE c.voices[voice_idx].pitch])]
        next_voice == voice_idx + 1
        event_complete == find_next_voice_needing_note(c1, next_voice) >= NUM_VOICES
    IN  IF event_complete THEN complete_event(c1)
        ELSE [c1 EXCEPT !.voice_ptr = next_voice]

process_note_event(c, note) ==
    LET starting == ~c.event_building
        c1 == IF starting
              THEN [c EXCEPT !.voice_ptr = 0, !.event_building = TRUE]
              ELSE c
    IN  IF starting /\ ~any_voice_active(c1)
        THEN [report_error(c1, "ERR_NO_VOICES_ACTIVE") EXCEPT !.exited = TRUE]
        ELSE LET voice_idx == find_next_voice_needing_note(c1, c1.voice_ptr)
             IN  IF voice_idx >= NUM_VOICES
                 THEN report_error(c1, "ERR_NO_VOICES_ACTIVE")
                 ELSE LET c2 == IF note.voice # 0 /\ voice_idx # note.voice - 1
                                THEN report_error(c1, "ERR_VOICE_MISMATCH")
                                ELSE c1
                          c3 == emit_note_for_voice(c2, voice_idx, note)
                      IN  update_voice_and_close(c3, voice_idx, note)

\* tok: [voice, rest, letter, acc, octave, dur, mod], a well-terminated note
\* literal; voice 0 and octave 0 stand for an absent digit
parse_note(c, tok) ==
    LET dcode == duration_code_of(tok.dur, tok.mod)
    IN  IF dcode = 0
        THEN report_error(c, "ERR_ILLEGAL_DURATION")
        ELSE process_note_event(c,
                [voice |-> tok.voice,
                 pitch |-> IF tok.rest THEN 0 ELSE parse_note_pitch(tok.letter, tok.acc),
                 octave |-> IF tok.rest THEN 0 ELSE tok.octave,
                 duration_code |-> dcode,
                 duration_time |-> duration_time_of(dcode)])

(* ---------------------------------------------------------------------- *)
(* Keyword handlers                                                        *)
(* ---------------------------------------------------------------------- *)
check_event_conflict(c) ==
    IF c.event_building
    THEN [report_error(c, "ERR_EXEC_CTRL_IN_EVENT") EXCEPT !.event_building = FALSE]
    ELSE c

handle_nvc(c, tok) ==
    LET p == parse_numeric_arg(c, tok)
        num_voices == p[2]
    IN  IF ~is_valid_voice(num_voices)
        THEN report_error(p[1], "ERR_ARG_OUT_OF_RANGE")
        ELSE emit_byte(emit_byte(check_event_conflict(p[1]), OP_SET_VOICES),
                       num_voices)

\* the do-while loop over the voice list toks, from its i-th number on; an
\* invalid number ends the handler (the continue lands on the loop test
\* behind the comma it has just skipped)
RECURSIVE voice_control_loop(_, _, _, _)
voice_control_loop(c, toks, i, activate) ==
    IF i > Len(toks) THEN c
    ELSE LET p == parse_numeric_arg(c, toks[i])
             voice_num == p[2]
             voice_idx == voice_num - 1
             opcode == IF activate THEN OP_VOICE_ACTIVATE ELSE OP_VOICE_DEACTIVATE
         IN  IF ~is_valid_voice(voice_num)
             THEN report_error(p[1], "ERR_ARG_OUT_OF_RANGE")
             ELSE LET c1 == emit_byte(emit_byte(check_event_conflict(p[1]), opcode),
                                      voice_idx)
                      c2 == IF activate THEN activate_voice(c1, voice_idx)
                            ELSE deactivate_voice(c1, voice_idx)
                  IN  voice_control_loop(c2, toks, i + 1, activate)

handle_voice_control(c, toks, activate) == voice_control_loop(c, toks, 1, activate)

handle_act(c, toks) == handle_voice_control(c, toks, TRUE)

handle_dct(c, toks) == handle_voice_control(c, toks, FALSE)

handle_wav(c, wtok, vtok) ==
    LET p == parse_numeric_arg(c, wtok)
        waveform == p[2]
    IN  IF ~is_valid_waveform(waveform)
        THEN report_error(p[1], "ERR_ARG_OUT_OF_RANGE")
        ELSE LET q == parse_numeric_arg(p[1], vtok)
                 voice_num == q[2]
                 voice_idx == voice_num - 1
             IN  IF ~is_valid_voice(voice_num)
                 THEN report_error(q[1], "ERR_ARG_OUT_OF_RANGE")
                 ELSE [q[1] EXCEPT !.voices[voice_idx].use_absolute = TRUE,
                                   !.voices[voice_idx].waveform = waveform - 1]

\* a TPO that emits its operand without the opcode
handle_tpo_no_opcode(c, tok) ==
    LET p == parse_numeric_arg(c, tok)
        tempo == p[2]
    IN  IF tempo < MIN_TEMPO \/ tempo > MAX_TEMPO
        THEN report_error(p[1], "ERR_ARG_OUT_OF_RANGE")
        ELSE emit_byte(check_event_conflict(p[1]), tempo)

handle_tpo(c, tok) ==
    LET p == parse_numeric_arg(c, tok)
        tempo == p[2]
    IN  IF tempo < MIN_TEMPO \/ tempo > MAX_TEMPO
        THEN report_error(p[1], "ERR_ARG_OUT_OF_RANGE")
        ELSE emit_byte(emit_byte(check_event_conflict(p[1]), OP_TEMPO), tempo)

\* an ABS that changes nothing
handle_abs_nothing(c) == c

handle_abs(c) ==
    [c EXCEPT !.voices = [i \in Voices |-> [c.voices[i] EXCEPT !.use_absolute = TRUE]]]

handle_jump(c, opcode, tok) ==
    LET p == parse_numeric_arg(c, tok)
        target_id == p[2]
    IN  IF target_id < 1 \/ target_id > 255
        THEN report_error(p[1], "ERR_ARG_OUT_OF_RANGE")
        ELSE IF ~find_symbol(p[1], target_id)
        THEN check_event_conflict(report_error(p[1], "ERR_UNDEFINED_IDENTIFIER"))
        ELSE LET target_addr == symbol_address(p[1], target_id)
             IN  emit_word(emit_byte(check_event_conflict(p[1]), opcode),
                           (target_addr - base_address) % 65536)

handle_jmp(c, tok) == handle_jump(c, OP_JMP, tok)

handle_jsr(c, tok) == handle_jump(c, OP_JSR, tok)

handle_rts(c) == emit_byte(check_event_conflict(c), OP_RTS)

\* a SUB that opens a slot whether or not one is open
handle_sub_unchecked(c) ==
    LET c1 == emit_byte(check_event_conflict(c), OP_JMP)
        c2 == [c1 EXCEPT !.sub_address = Len(c1.code) % 65536]
    IN  emit_word(c2, 0)

handle_sub(c) ==
    IF c.sub_address # 0
    THEN check_event_conflict(report_error(c, "ERR_NESTED_SUB_ESB"))
    ELSE LET c1 == emit_byte(check_event_conflict(c), OP_JMP)
             c2 == [c1 EXCEPT !.sub_address = Len(c1.code) % 65536]
         IN  emit_word(c2, 0)

\* code[idx] = byte: a cell of the image, or, with idx >= MAX_CODE_SIZE, a
\* store past the end of the array code[MAX_CODE_SIZE]
patch_byte(c, idx, byte) ==
    IF idx < Len(c.code) THEN [c EXCEPT !.code[idx + 1] = byte % 256]
    ELSE IF idx >= MAX_CODE_SIZE THEN [c EXCEPT !.stray = @ \cup {idx}]
    ELSE c

\* an ESB that closes the slot and patches nothing
handle_esb_no_patch(c) ==
    IF c.sub_address = 0
    THEN check_event_conflict(report_error(c, "ERR_ESB_WITHOUT_SUB"))
    ELSE [check_event_conflict(c) EXCEPT !.sub_address = 0]

handle_esb(c) ==
    IF c.sub_address = 0
    THEN check_event_conflict(report_error(c, "ERR_ESB_WITHOUT_SUB"))
    ELSE LET c1 == check_event_conflict(c)
             current_addr == (Len(c1.code) + base_address) % 65536
             relative_addr == (current_addr - base_address) % 65536
             c2 == patch_byte(c1, c1.sub_address, relative_addr % 256)
             c3 == patch_byte(c2, c1.sub_address + 1, (relative_addr \div 256) % 256)
         IN  [c3 EXCEPT !.sub_address = 0]

handle_end(c) ==
    LET c1 == [emit_byte(c, OP_END) EXCEPT !.end_flag = TRUE]
    IN  IF c1.sub_address # 0 THEN report_error(c1, "ERR_HANGING_SUB") ELSE c1

(* ---------------------------------------------------------------------- *)
(* Identifier parsing                                                      *)
(* ---------------------------------------------------------------------- *)
\* tok is the value of the digit string the line starts with.  Inside an
\* event the digits are left unread: tok is then a voice digit, which the
\* specification loop reads as the start of a note and rejects.
parse_identifier(c, tok) ==
    IF c.event_building
    THEN report_error(report_error(c, "ERR_IDENTIFIER_IN_EVENT"),
                      "ERR_INCOMPREHENSIBLE_SPEC")
    ELSE LET p == parse_numeric_arg(c, tok)
             id == p[2]
         IN  IF id = 0
             THEN report_error(p[1], "ERR_INCOMPREHENSIBLE_SPEC")
             ELSE IF find_symbol(p[1], id)
             THEN report_error(p[1], "ERR_DUPLICATE_IDENTIFIER")
             ELSE add_symbol(p[1], id, base_address + Len(p[1].code))

(* ====================================================================== *)
(* The interpreter (notint.c)                                              *)
(*                                                                         *)
(* interpret_loop is stepped through its phases: the test of the while     *)
(* loop, one control command of process_pure_control_commands at a time,   *)
(* process_notes_for_voices with find_shortest_duration, and play_notes.   *)
(* The functions work on a record s of the fields of interpreter_state_t.  *)
(* ====================================================================== *)
MAX_VOICES == 4
NUM_NOTES == 62
CMD_END == 0
CMD_TEMPO == 16
CMD_CALL == 32
CMD_RETURN == 48
CMD_JUMP == 64
CMD_SETVOICES == 80
CMD_LONGNOTE_ABS == 96
CMD_LONGNOTE_REL == 112
CMD_DEACTIVATE == 128
CMD_ACTIVATE == 144
PITCH_REST == -8
VOICE_INACTIVE == 255
STACK_SIZE == 256
DEFAULT_TEMPO == 32
BUFFER_FRAMES == 1024
WAVETABLE_SIZE == 256
SAMPLE_MAX == 255
\* stands for UINT32_MAX, the default of option -j: a budget no run uses up
JUMPS_UNLIMITED == -1

VARIABLES
    object_code,        \* interpreter_state_t.object_code[0 .. code_size-1]
    num_wavetables,     \* interpreter_state_t.num_wavetables
    ivoices,            \* interpreter_state_t.voices
    code_ptr,           \* interpreter_state_t.code_ptr
    tempo,              \* interpreter_state_t.tempo
    duration,           \* interpreter_state_t.duration
    call_stack,         \* interpreter_state_t.call_stack[0 .. stack_ptr-1]
    num_active_voices,  \* interpreter_state_t.num_active_voices
    running,            \* interpreter_state_t.running
    running_seen,       \* the value of running the loops work with: the
                        \* flag is a plain bool that a signal handler
                        \* writes, so a test may use the value an earlier
                        \* test loaded instead of reading the flag again
    max_jumps,          \* interpreter_state_t.max_jumps
    config_max_jumps,   \* config_t.max_jumps, the value of option -j
    ipc,                \* where the interpreter is: "off", "loop",
                        \* "control", "notes", "play", "done"
    result,             \* what interpret_loop returned: "none", "ok", "fail"
    wavetables,         \* interpreter_state_t.wavetables, one tuple of
                        \* WAVETABLE_SIZE bytes for each page
    samples,            \* samples handed to the sink so far
    samples_generated,  \* play_notes: samples generated for this event
    buffer_pos,         \* play_notes: samples waiting in the audio buffer
    last_sample,        \* the value generate_sample returned last
    rung,               \* for each voice the time units rendered while it
                        \* rang since its note was assigned; -1 with no
                        \* note, and after ACTIVATE or DEACTIVATE of it
    max_read,           \* the highest index at which object_code has been
                        \* read so far, -1 before the first read
    inote_log           \* notes assigned so far: voice, time units,
                        \* note_offset, the command byte

ivars == <<object_code, num_wavetables, ivoices, code_ptr, tempo, duration,
           call_stack, num_active_voices, running, running_seen,
           max_jumps, config_max_jumps, ipc, result, wavetables, samples,
           samples_generated, buffer_pos, last_sample,
           rung, max_read, inote_log>>

vars == <<cvars, ivars>>

icode_size == Len(object_code)
stack_ptr == Len(call_stack)

DURATION_TABLE ==
    <<0, 192, 144, 96, 72, 64, 48, 36, 32, 24, 18, 16, 12, 9, 8, 6>>

FREQUENCY_TABLE ==
    <<0, 244, 259, 274, 291, 308, 326, 346,
      366, 388, 411, 435, 461, 489, 518, 549,
      581, 616, 652, 691, 732, 776, 822, 871,
      922, 977, 1035, 1097, 1162, 1231, 1305, 1382,
      1464, 1551, 1644, 1741, 1845, 1955, 2071, 2194,
      2325, 2463, 2609, 2764, 2929, 3103, 3287, 3483,
      3690, 3909, 4142, 4388, 4649, 4926, 5218, 5529,
      5858, 6206, 6575, 6966, 7380, 7819>>

InterpRec ==
    [voices |-> ivoices, code_ptr |-> code_ptr, tempo |-> tempo,
     duration |-> duration, call_stack |-> call_stack,
     num_active_voices |-> num_active_voices, max_jumps |-> max_jumps,
     note_log |-> inote_log, max_read |-> max_read]

(* ---------------------------------------------------------------------- *)
(* Utility functions                                                       *)
(* ---------------------------------------------------------------------- *)
get_frequency_increment(note_offset) ==
    LET array_index == note_offset \div 2
    IN  IF array_index >= NUM_NOTES \/ array_index < 0 THEN 0
        ELSE FREQUENCY_TABLE[array_index + 1]

sign_extend_4bit(nibble) == IF nibble >= 8 THEN nibble - 16 ELSE nibble

is_control_command(command) == command % 16 = 0

is_long_note_command(command) ==
    LET cmd_type == (command \div 16) * 16
    IN  cmd_type = CMD_LONGNOTE_ABS \/ cmd_type = CMD_LONGNOTE_REL

is_voice_active(voice) == voice.duration # VOICE_INACTIVE

is_voice_expired(voice) == voice.duration = 0

(* ---------------------------------------------------------------------- *)
(* Voice management                                                        *)
(* ---------------------------------------------------------------------- *)
init_voice(wavetable_base) ==
    [phase_frac |-> 0, phase_int |-> 0, wavetable_page |-> wavetable_base,
     note_offset |-> 0, freq_increment |-> 0, duration |-> VOICE_INACTIVE]

set_voice_silent(voice) == [voice EXCEPT !.freq_increment = 0]

int_activate_voice(voice) == set_voice_silent([voice EXCEPT !.duration = 0])

\* a voice switched off that keeps its frequency increment
int_deactivate_voice_keeps_sound(voice) ==
    [voice EXCEPT !.duration = VOICE_INACTIVE]

int_deactivate_voice(voice) ==
    set_voice_silent([voice EXCEPT !.duration = VOICE_INACTIVE])

reset_phase_accumulator(voice) ==
    [voice EXCEPT !.phase_frac = 0, !.phase_int = 0]

update_voice_frequency(voice, note_offset) ==
    [voice EXCEPT !.note_offset = note_offset,
                  !.freq_increment = get_frequency_increment(note_offset)]

\* a short note that takes its duration and leaves the pitch alone
assign_short_note_keeps_pitch(voice, pitch_field, duration_code) ==
    [voice EXCEPT !.duration = DURATION_TABLE[duration_code + 1]]

\* a short note that never resets the phase accumulator
assign_short_note_no_reset(voice, pitch_field, duration_code) ==
    LET v1 == [voice EXCEPT !.duration = DURATION_TABLE[duration_code + 1]]
        pitch_nibble == sign_extend_4bit(pitch_field \div 16)
    IN  IF pitch_nibble = PITCH_REST THEN set_voice_silent(v1)
        ELSE update_voice_frequency(v1, (v1.note_offset + pitch_nibble * 2) % 256)

assign_short_note(voice, pitch_field, duration_code) ==
    LET prev_note_offset == voice.note_offset
        v1 == [voice EXCEPT !.duration = DURATION_TABLE[duration_code + 1]]
        pitch_nibble == sign_extend_4bit(pitch_field \div 16)
    IN  IF pitch_nibble = PITCH_REST THEN set_voice_silent(v1)
        ELSE LET byte_offset == pitch_nibble * 2
                 v2 == update_voice_frequency(v1, (v1.note_offset + byte_offset) % 256)
             IN  IF byte_offset = 0 /\ prev_note_offset = v2.note_offset
                 THEN reset_phase_accumulator(v2)
                 ELSE v2

assign_long_note_absolute(voice, pitch_byte, waveform, duration_code) ==
    update_voice_frequency(
        [voice EXCEPT !.note_offset = pitch_byte, !.wavetable_page = waveform,
                      !.duration = DURATION_TABLE[duration_code + 1]],
        pitch_byte)

\* pitch_displacement is the pitch byte read as an int8_t
assign_long_note_relative(voice, pitch_displacement, waveform, duration_code) ==
    LET v1 == [voice EXCEPT !.note_offset = (@ + pitch_displacement) % 256,
                            !.wavetable_page = waveform,
                            !.duration = DURATION_TABLE[duration_code + 1]]
    IN  update_voice_frequency(v1, v1.note_offset)

set_num_voices(s, num_voices) ==
    [s EXCEPT !.num_active_voices =
        IF num_voices < 1 THEN 1
        ELSE IF num_voices > MAX_VOICES THEN MAX_VOICES ELSE num_voices]

(* ---------------------------------------------------------------------- *)
(* Bytecode reading: the results are <<s, value>>                          *)
(* ---------------------------------------------------------------------- *)
\* object_code[i] is read
code_read(s, i) == [s EXCEPT !.max_read = IF i > @ THEN i ELSE @]

\* read_code_byte without the test of code_ptr
read_code_byte_unchecked(s) ==
    <<[code_read(s, s.code_ptr) EXCEPT !.code_ptr = @ + 1],
      IF s.code_ptr < icode_size THEN object_code[s.code_ptr + 1] ELSE 0>>

read_code_byte(s) ==
    IF s.code_ptr >= icode_size THEN <<s, 0>>
    ELSE <<[code_read(s, s.code_ptr) EXCEPT !.code_ptr = @ + 1],
           object_code[s.code_ptr + 1]>>

read_code_address(s) ==
    LET lo == read_code_byte(s)
        hi == read_code_byte(lo[1])
    IN  <<hi[1], lo[2] + hi[2] * 256>>

(* ---------------------------------------------------------------------- *)
(* Command processing: the results are <<s, return value>>                 *)
(* ---------------------------------------------------------------------- *)
\* a tempo of 0 taken like any other
handle_tempo_command_any(s) ==
    LET r == read_code_byte(s)
    IN  <<[r[1] EXCEPT !.tempo = r[2]], 0>>

handle_tempo_command(s) ==
    LET r == read_code_byte(s)
    IN  IF r[2] = 0 THEN <<r[1], -1>>
        ELSE <<[r[1] EXCEPT !.tempo = r[2]], 0>>

\* the overflow test off by one: a 257th return address is pushed
handle_call_command_late(s) ==
    IF Len(s.call_stack) > STACK_SIZE THEN <<s, -1>>
    ELSE LET s1 == [s EXCEPT !.call_stack = Append(@, (s.code_ptr + 2) % 65536)]
             r == read_code_address(s1)
         IN  IF r[2] >= icode_size THEN <<r[1], -1>>
             ELSE <<[r[1] EXCEPT !.code_ptr = r[2]], 0>>

handle_call_command(s) ==
    IF Len(s.call_stack) >= STACK_SIZE THEN <<s, -1>>
    ELSE LET s1 == [s EXCEPT !.call_stack = Append(@, (s.code_ptr + 2) % 65536)]
             r == read_code_address(s1)
         IN  IF r[2] >= icode_size THEN <<r[1], -1>>
             ELSE <<[r[1] EXCEPT !.code_ptr = r[2]], 0>>

handle_return_command(s) ==
    IF Len(s.call_stack) = 0 THEN <<s, -1>>
    ELSE <<[s EXCEPT !.code_ptr = s.call_stack[Len(s.call_stack)],
                     !.call_stack = SubSeq(@, 1, Len(@) - 1)], 0>>

\* the end of the code accepted as a target
handle_jump_command_to_end(s) ==
    IF s.max_jumps = 0 THEN <<s, 1>>
    ELSE LET s1 == [s EXCEPT !.max_jumps =
                        IF @ = JUMPS_UNLIMITED THEN @ ELSE @ - 1]
             r == read_code_address(s1)
         IN  IF r[2] > icode_size THEN <<r[1], -1>>
             ELSE <<[r[1] EXCEPT !.code_ptr = r[2]], 0>>

\* a used-up budget reported as a failure
handle_jump_command_strict(s) ==
    IF s.max_jumps = 0 THEN <<s, -1>>
    ELSE LET s1 == [s EXCEPT !.max_jumps =
                        IF @ = JUMPS_UNLIMITED THEN @ ELSE @ - 1]
             r == read_code_address(s1)
         IN  IF r[2] >= icode_size THEN <<r[1], -1>>
             ELSE <<[r[1] EXCEPT !.code_ptr = r[2]], 0>>

handle_jump_command(s) ==
    IF s.max_jumps = 0 THEN <<s, 1>>
    ELSE LET s1 == [s EXCEPT !.max_jumps =
                        IF @ = JUMPS_UNLIMITED THEN @ ELSE @ - 1]
             r == read_code_address(s1)
         IN  IF r[2] >= icode_size THEN <<r[1], -1>>
             ELSE <<[r[1] EXCEPT !.code_ptr = r[2]], 0>>

handle_setvoices_command(s) ==
    LET r == read_code_byte(s)
    IN  <<set_num_voices(r[1], r[2]), 0>>

handle_deactivate_command(s) ==
    LET r == read_code_byte(s)
        voice_num == r[2] % 4
    IN  <<[r[1] EXCEPT !.voices[voice_num] = int_deactivate_voice(@)], 0>>

handle_activate_command(s) ==
    LET r == read_code_byte(s)
        voice_num == r[2] % 4
    IN  <<[r[1] EXCEPT !.voices[voice_num] = int_activate_voice(@)], 0>>

process_control_command(s, command) ==
    LET cmd_type == (command \div 16) * 16
    IN  IF is_long_note_command(command) THEN <<s, -1>>
        ELSE CASE cmd_type = CMD_END -> <<s, 1>>
               [] cmd_type = CMD_TEMPO -> handle_tempo_command(s)
               [] cmd_type = CMD_CALL -> handle_call_command(s)
               [] cmd_type = CMD_RETURN -> handle_return_command(s)
               [] cmd_type = CMD_JUMP -> handle_jump_command(s)
               [] cmd_type = CMD_SETVOICES -> handle_setvoices_command(s)
               [] cmd_type = CMD_DEACTIVATE -> handle_deactivate_command(s)
               [] cmd_type = CMD_ACTIVATE -> handle_activate_command(s)
               [] OTHER -> <<s, -1>>

\* the note just assigned to voice_idx goes to the log
log_note(s, voice_idx, is_rest, command) ==
    [s EXCEPT !.note_log = Append(@,
        [voice |-> voice_idx, dur |-> s.voices[voice_idx].duration,
         offset |-> s.voices[voice_idx].note_offset, rest |-> is_rest,
         cmd |-> command])]

\* process_long_note without the test of the waveform number
process_long_note_any_page(s, voice_idx, command) ==
    LET cmd_type == (command \div 16) * 16
        r1 == read_code_byte(s)
        r2 == read_code_byte(r1[1])
        pitch_byte == r1[2]
        wd_byte == r2[2]
        waveform0 == (wd_byte \div 16) % 16
        duration_code0 == wd_byte % 16
        duration_code == IF duration_code0 = 0 THEN 1 ELSE duration_code0
        waveform == waveform0
        voice == r2[1].voices[voice_idx]
    IN  [r2[1] EXCEPT !.voices[voice_idx] =
            IF cmd_type = CMD_LONGNOTE_ABS
            THEN assign_long_note_absolute(voice, pitch_byte, waveform, duration_code)
            ELSE assign_long_note_relative(voice,
                    IF pitch_byte >= 128 THEN pitch_byte - 256 ELSE pitch_byte,
                    waveform, duration_code)]

process_long_note(s, voice_idx, command) ==
    LET cmd_type == (command \div 16) * 16
        r1 == read_code_byte(s)
        r2 == read_code_byte(r1[1])
        pitch_byte == r1[2]
        wd_byte == r2[2]
        waveform0 == (wd_byte \div 16) % 16
        duration_code0 == wd_byte % 16
        duration_code == IF duration_code0 = 0 THEN 1 ELSE duration_code0
        waveform == IF waveform0 >= num_wavetables THEN num_wavetables - 1
                    ELSE waveform0
        voice == r2[1].voices[voice_idx]
    IN  [r2[1] EXCEPT !.voices[voice_idx] =
            IF cmd_type = CMD_LONGNOTE_ABS
            THEN assign_long_note_absolute(voice, pitch_byte, waveform, duration_code)
            ELSE assign_long_note_relative(voice,
                    IF pitch_byte >= 128 THEN pitch_byte - 256 ELSE pitch_byte,
                    waveform, duration_code)]

RECURSIVE shortest_scan(_, _, _)
shortest_scan(s, i, shortest) ==
    IF i >= MAX_VOICES THEN shortest
    ELSE IF is_voice_active(s.voices[i]) /\ ~is_voice_expired(s.voices[i])
              /\ s.voices[i].duration < shortest
         THEN shortest_scan(s, i + 1, s.voices[i].duration)
         ELSE shortest_scan(s, i + 1, shortest)

find_shortest_duration(s) == shortest_scan(s, 0, VOICE_INACTIVE)

(* ---------------------------------------------------------------------- *)
(* Interpreter main loop                                                   *)
(* ---------------------------------------------------------------------- *)
\* lines 747-753: the last event's duration is taken off a ringing voice
age_voice(s, voice_idx) ==
    LET voice == s.voices[voice_idx]
    IN  IF voice.duration > 0 /\ s.duration > 0
        THEN IF voice.duration > s.duration
             THEN [s EXCEPT !.voices[voice_idx].duration = @ - s.duration]
             ELSE [s EXCEPT !.voices[voice_idx].duration = 0]
        ELSE s

\* the for loop of process_notes_for_voices from voice_idx on
RECURSIVE notes_loop(_, _)
notes_loop(s, voice_idx) ==
    IF voice_idx >= MAX_VOICES THEN s
    ELSE IF ~is_voice_active(s.voices[voice_idx]) THEN notes_loop(s, voice_idx + 1)
    ELSE LET s1 == age_voice(s, voice_idx)
         IN  IF ~is_voice_expired(s1.voices[voice_idx])
             THEN notes_loop(s1, voice_idx + 1)
             ELSE IF s1.code_ptr >= icode_size THEN s1
             ELSE LET r == read_code_byte(s1)
                      command == r[2]
                      duration_code == command % 16
                  IN  IF duration_code = 0
                      THEN IF is_long_note_command(command)
                           THEN notes_loop(
                                  log_note(process_long_note(r[1], voice_idx, command),
                                           voice_idx, FALSE, command),
                                  voice_idx + 1)
                           ELSE [r[1] EXCEPT !.code_ptr = @ - 1]
                      ELSE notes_loop(
                             log_note(
                               [r[1] EXCEPT !.voices[voice_idx] =
                                   assign_short_note(@, (command \div 16) * 16,
                                                     duration_code)],
                               voice_idx, command \div 16 = 8, command),
                             voice_idx + 1)

process_notes_for_voices(s) == notes_loop(s, 0)

\* a voice's phase after n samples of generate_sample
advance_phase_by(voice, n) ==
    LET phase == (voice.phase_int * 256 + voice.phase_frac
                    + n * voice.freq_increment) % 65536
    IN  [voice EXCEPT !.phase_frac = phase % 256, !.phase_int = phase \div 256]

\* generate_sample, lines 648-659: the voices that are mixed and advanced
voice_sounds(s, i) ==
    /\ i < s.num_active_voices
    /\ s.voices[i].freq_increment # 0
    /\ s.voices[i].wavetable_page < num_wavetables

\* the state after n calls of generate_sample
advance_voices(s, n) ==
    [s EXCEPT !.voices =
        [i \in 0 .. (MAX_VOICES - 1) |->
            IF voice_sounds(s, i)
            THEN advance_phase_by(s.voices[i], n)
            ELSE s.voices[i]]]

\* play_notes run to its end: tempo * duration samples
play_notes(s) == advance_voices(s, s.tempo * s.duration)

advance_phase(voice) ==
    LET phase == (voice.phase_int * 256 + voice.phase_frac
                    + voice.freq_increment) % 65536
    IN  [voice EXCEPT !.phase_frac = phase % 256,
                      !.phase_int = (phase \div 256) % 256]

\* a sample cut to eight bits instead of saturated
clamp_sample_wraps(value) == value % 256

clamp_sample(value) ==
    IF value > SAMPLE_MAX THEN SAMPLE_MAX ELSE value % 256

\* the loop of generate_sample from voice i on; sum is a uint16_t
RECURSIVE mix_voices(_, _, _)
mix_voices(s, i, sum) ==
    IF i >= s.num_active_voices THEN <<s, sum>>
    ELSE IF s.voices[i].freq_increment = 0
            \/ s.voices[i].wavetable_page >= num_wavetables
         THEN mix_voices(s, i + 1, sum)
         ELSE LET wavetable == wavetables[s.voices[i].wavetable_page + 1]
              IN  mix_voices([s EXCEPT !.voices[i] = advance_phase(@)],
                             i + 1,
                             (sum + wavetable[s.voices[i].phase_int + 1])
                                 % 65536)

\* the state generate_sample leaves and the sample it returns
generate_sample(s) ==
    LET r == mix_voices(s, 0, 0)
    IN  <<r[1], clamp_sample(r[2])>>

(* ---------------------------------------------------------------------- *)
(* Inputs                                                                  *)
(* ---------------------------------------------------------------------- *)
\* option -a: the default, 0x2000, and the top of the 16-bit address space
BaseAddresses == {0, 8192, 65535}

NoteTok(v, l, a, o, d, m) ==
    [voice |-> v, rest |-> FALSE, letter |-> l, acc |-> a, octave |-> o,
     dur |-> d, mod |-> m]

RestTok(v, d, m) ==
    [voice |-> v, rest |-> TRUE, letter |-> "C", acc |-> "", octave |-> 0,
     dur |-> d, mod |-> m]

\* C4Q, RH, C#6Q (pitch 62), CW3 (no such duration)
NoteToks ==
    {NoteTok(0, "C", "", 4, "Q", ""), RestTok(0, "H", ""),
     NoteTok(0, "C", "#", 6, "Q", ""), NoteTok(0, "C", "", 4, "W", "3")}

NvcArgs == {2, 5}
ActArgs == {<<1>>, <<1, 2>>, <<5>>}
DctArgs == {<<1>>}
WavArgs == {<<3, 1>>, <<3, 5>>}
TpoArgs == {60, 0}
JumpArgs == {1, 2}
IdArgs == {1, 2}

\* SpecEvent: C4Q, G4H (7 above C4), C5E (12 above C4), RQ, and C4Q
\* written for voice 2
EventNoteToks ==
    {NoteTok(0, "C", "", 4, "Q", ""), NoteTok(0, "G", "", 4, "H", ""),
     NoteTok(0, "C", "", 5, "E", ""), RestTok(0, "Q", ""),
     NoteTok(2, "C", "", 4, "Q", "")}

EventActArgs == {<<1>>, <<1, 2>>}
EventDctArgs == {<<1>>}
EventWavArgs == {<<3, 1>>}

\* SpecRT: C4Q, G4H (7 above C4), RQ
RTNoteToks ==
    {NoteTok(0, "C", "", 4, "Q", ""), NoteTok(0, "G", "", 4, "H", ""),
     RestTok(0, "Q", "")}

RTActArgs == {<<1>>, <<1, 2>>}
RTDctArgs == {<<1>>}

\* SpecCtl: operands inside and outside the range of each keyword
CtlNvcArgs == {1, 2, 5}
CtlActArgs == {<<1>>, <<1, 2>>, <<5>>}
CtlDctArgs == {<<1>>}
CtlTpoArgs == {60, 0}
CtlNoteToks == {NoteTok(0, "C", "", 4, "Q", "")}

\* SpecNote: a rest of every duration letter with every modifier
DurationToks ==
    {RestTok(0, d, m) : d \in {"W", "H", "Q", "E", "S", "T"}, m \in {"", ".", "3"}}

\* SpecNote: a quarter note of every letter and accidental, written without
\* an octave digit or in the lowest or the highest octave
PitchToks ==
    {NoteTok(0, l, a, o, "Q", "") :
        l \in {"A", "B", "C", "D", "E", "F", "G"}, a \in {"", "#", "@"},
        o \in {0, 1, 6}}

NoteActArgs == {<<1>>}

(* ---------------------------------------------------------------------- *)
(* Actions of the compiler                                                 *)
(* ---------------------------------------------------------------------- *)
VoiceInit ==
    [waveform |-> 0, duration |-> INACTIVE_VOICE_DURATION, pitch |-> 0,
     octave |-> 0, use_absolute |-> TRUE]

\* init_compiler, and main() up to the call of process_file, for a source
\* file of at most nspecs specifications on at most nlines lines, with at
\* most ntail specifications on a line after its first error or END
InitCompiler(bases, nspecs, nlines, ntail) ==
    /\ base_address \in bases
    /\ code = <<>>
    /\ symbols = <<>>
    /\ voices = [i \in Voices |-> VoiceInit]
    /\ event_building = FALSE
    /\ voice_ptr = 0
    /\ sub_address = 0
    /\ end_flag = FALSE
    /\ error_flag = FALSE
    /\ cpc = "file"
    /\ object_written = FALSE
    /\ exit_status = -1
    /\ errs = <<>>
    /\ last = [op |-> "init", arg |-> <<>>, start |-> 0]
    /\ source = <<>>
    /\ close_snap = NoSnap
    /\ note_log = <<>>
    /\ specs_left = nspecs
    /\ lines_left = nlines
    /\ tail_left = ntail
    /\ ops_used = {}
    /\ wav_pending = [i \in Voices |-> 0]
    /\ abs_pending = FALSE
    /\ stray = {}

\* the interpreter before main() of notint.c has loaded anything
InterpOff ==
    /\ object_code = <<>>
    /\ num_wavetables = 1
    /\ ivoices = [i \in 0 .. (MAX_VOICES - 1) |-> init_voice(0)]
    /\ code_ptr = 0
    /\ tempo = 0
    /\ duration = 0
    /\ call_stack = <<>>
    /\ num_active_voices = MAX_VOICES
    /\ running = TRUE
    /\ running_seen = TRUE
    /\ max_jumps = JUMPS_UNLIMITED
    /\ config_max_jumps = JUMPS_UNLIMITED
    /\ ipc = "off"
    /\ result = "none"
    /\ wavetables = <<[i \in 1 .. WAVETABLE_SIZE |-> 0]>>
    /\ samples = 0
    /\ samples_generated = 0
    /\ buffer_pos = 0
    /\ last_sample = 0
    /\ rung = [i \in 0 .. (MAX_VOICES - 1) |-> -1]
    /\ max_read = -1
    /\ inote_log = <<>>

Init == InitCompiler(BaseAddresses, MaxSpecs, MaxLines, MaxTail) /\ InterpOff

\* the record a handler returns becomes the compiler's state
Store(c, op, arg) ==
    /\ code' = c.code
    /\ symbols' = c.symbols
    /\ voices' = c.voices
    /\ event_building' = c.event_building
    /\ voice_ptr' = c.voice_ptr
    /\ sub_address' = c.sub_address
    /\ end_flag' = c.end_flag
    /\ error_flag' = c.error_flag
    /\ errs' = c.errs
    /\ close_snap' = c.close_snap
    /\ note_log' = c.note_log
    /\ stray' = stray \cup c.stray
    /\ last' = [op |-> op, arg |-> arg, start |-> Len(code)]
    /\ source' = Append(source, <<op, arg>>)
    /\ UNCHANGED <<base_address, ivars>>

\* process_file reads a line; process_line, lines 337-353, finds it to start
\* with a blank
BeginLine ==
    /\ cpc = "file"
    /\ lines_left > 0
    /\ lines_left' = lines_left - 1
    /\ cpc' = "line"
    /\ Store(CompilerRec, "line", <<>>)
    /\ UNCHANGED <<specs_left, tail_left, ops_used, object_written, exit_status,
                   wav_pending, abs_pending>>

\* process_file reads a line; process_line, lines 337-353, finds it to start
\* with the identifier tok
BeginLineId(tok) ==
    /\ cpc = "file"
    /\ lines_left > 0
    /\ lines_left' = lines_left - 1
    /\ cpc' = "line"
    /\ Store(parse_identifier(CompilerRec, tok), "id", <<tok>>)
    /\ UNCHANGED <<specs_left, tail_left, ops_used, object_written, exit_status,
                   wav_pending, abs_pending>>

\* the handler's result c holds a note more than the state
NotePlaced(c) == Len(c.note_log) > Len(note_log)

\* the voice and the pitch (0 for a rest) of the note c holds last
PlacedVoice(c) == c.note_log[Len(c.note_log)].voice

PlacedPitch(c) == c.note_log[Len(c.note_log)].pitch

\* the specification loop of process_line (lines 356-370) handles one more
\* specification of the current line with the handler's result c; a store
\* past the end of code[] is undefined: it may be lost in padding, and the
\* run goes on as if nothing had been stored, or hit the object that
\* follows the array (code_size in compiler_t), and the run is followed no
\* further
Handle(c, op, arg) ==
    /\ cpc = "line"
    /\ specs_left > 0
    /\ (error_flag \/ end_flag) => tail_left > 0
    /\ Store(c, op, arg)
    /\ cpc' \in IF c.exited THEN {"exit"}
               ELSE IF c.stray # {} THEN {cpc, "undefined"}
               ELSE {cpc}
    /\ specs_left' = specs_left - 1
    /\ tail_left' = IF error_flag \/ end_flag THEN tail_left - 1 ELSE tail_left
    /\ ops_used' = ops_used \cup {op}
    /\ wav_pending' =
          IF op = "WAV" /\ c.errs = <<>>
          THEN [wav_pending EXCEPT ![arg[2] - 1] = arg[1]]
          ELSE IF NotePlaced(c) /\ PlacedPitch(c) # 0
          THEN [wav_pending EXCEPT ![PlacedVoice(c)] = 0]
          ELSE wav_pending
    /\ abs_pending' =
          IF op = "ABS" THEN abs_pending \/ ~event_building
          ELSE IF ~c.event_building /\ (event_building \/ NotePlaced(c)) THEN FALSE
          ELSE abs_pending
    /\ exit_status' = IF c.exited THEN 1 ELSE exit_status
    /\ UNCHANGED <<lines_left, object_written>>

Nvc(tok) == Handle(handle_nvc(CompilerRec, tok), "NVC", <<tok>>)

Act(toks) == Handle(handle_act(CompilerRec, toks), "ACT", toks)

Dct(toks) == Handle(handle_dct(CompilerRec, toks), "DCT", toks)

Wav(toks) == Handle(handle_wav(CompilerRec, toks[1], toks[2]), "WAV", toks)

Tpo(tok) == Handle(handle_tpo(CompilerRec, tok), "TPO", <<tok>>)

Abs == Handle(handle_abs(CompilerRec), "ABS", <<>>)

Jmp(tok) == Handle(handle_jmp(CompilerRec, tok), "JMP", <<tok>>)

Jsr(tok) == Handle(handle_jsr(CompilerRec, tok), "JSR", <<tok>>)

Rts == Handle(handle_rts(CompilerRec), "RTS", <<>>)

Sub == Handle(handle_sub(CompilerRec), "SUB", <<>>)

Esb == Handle(handle_esb(CompilerRec), "ESB", <<>>)

End == Handle(handle_end(CompilerRec), "END", <<>>)

Note(tok) == Handle(parse_note(CompilerRec, tok), "NOTE", <<tok>>)

\* main(), lines 256-281, once process_file has returned: with error_flag
\* set it returns EXIT_FAILURE, else the object file is written and it
\* returns EXIT_SUCCESS
main_finish ==
    /\ cpc' = "done"
    /\ object_written' = ~error_flag
    /\ exit_status' = IF error_flag THEN 1 ELSE 0

\* process_line returns (line 372); process_file leaves its loop when a flag
\* is set (lines 323-325) and main() finishes
EndLine ==
    /\ cpc = "line"
    /\ IF error_flag \/ end_flag
       THEN main_finish
       ELSE cpc' = "file" /\ UNCHANGED <<object_written, exit_status>>
    /\ Store(CompilerRec, "endline", <<>>)
    /\ UNCHANGED <<specs_left, lines_left, tail_left, ops_used,
                   wav_pending, abs_pending>>

\* fgets finds the end of the file (line 318) and main() finishes
EndOfFile ==
    /\ cpc = "file"
    /\ main_finish
    /\ Store(CompilerRec, "eof", <<>>)
    /\ UNCHANGED <<specs_left, lines_left, tail_left, ops_used,
                   wav_pending, abs_pending>>

Next ==
    \/ BeginLine
    \/ \E tok \in IdArgs : BeginLineId(tok)
    \/ EndLine
    \/ EndOfFile
    \/ \E tok \in NvcArgs : Nvc(tok)
    \/ \E toks \in ActArgs : Act(toks)
    \/ \E toks \in DctArgs : Dct(toks)
    \/ \E toks \in WavArgs : Wav(toks)
    \/ \E tok \in TpoArgs : Tpo(tok)
    \/ Abs
    \/ \E tok \in JumpArgs : Jmp(tok)
    \/ \E tok \in JumpArgs : Jsr(tok)
    \/ Rts
    \/ Sub
    \/ Esb
    \/ End
    \/ \E tok \in NoteToks : Note(tok)

Spec == Init /\ [][Next]_vars

(* ---------------------------------------------------------------------- *)
(* Actions of the interpreter                                              *)
(* ---------------------------------------------------------------------- *)
StoreInterp(s) ==
    /\ ivoices' = s.voices
    /\ code_ptr' = s.code_ptr
    /\ tempo' = s.tempo
    /\ duration' = s.duration
    /\ call_stack' = s.call_stack
    /\ num_active_voices' = s.num_active_voices
    /\ max_jumps' = s.max_jumps
    /\ inote_log' = s.note_log
    /\ max_read' = s.max_read
    /\ UNCHANGED <<object_code, num_wavetables, wavetables, running,
                   config_max_jumps, cvars>>

\* main() of notint.c loads the object file the compiler wrote;
\* init_interpreter refuses an empty image; interpret_loop starts and sets
\* the default tempo (lines 792-795)
Load ==
    /\ ipc = "off"
    /\ cpc = "done"
    /\ object_written
    /\ Len(code) > 0
    /\ object_code' = code
    /\ tempo' = DEFAULT_TEMPO
    /\ ipc' = "loop"
    /\ UNCHANGED running_seen
    /\ UNCHANGED <<num_wavetables, ivoices, code_ptr, duration, call_stack,
                   num_active_voices, running, max_jumps, config_max_jumps,
                   result, wavetables, samples, samples_generated,
                   buffer_pos, last_sample,
                   rung, max_read, inote_log, cvars>>

\* the test of the while loop, line 797, and the return after the loop
LoopTest ==
    /\ ipc = "loop"
    /\ \E seen \in {running, running_seen} :
          /\ running_seen' = seen
          /\ IF seen /\ code_ptr < icode_size
             THEN ipc' = "control" /\ UNCHANGED result
             ELSE ipc' = "done" /\ result' = "ok"
    /\ UNCHANGED rung
    /\ StoreInterp(InterpRec)
    /\ UNCHANGED <<samples, samples_generated, buffer_pos, last_sample>>

\* process_pure_control_commands, one pass of its loop that runs a command
ControlCommand ==
    /\ ipc = "control"
    /\ code_ptr < icode_size
    /\ LET command == object_code[code_ptr + 1]
       IN  /\ is_control_command(command) /\ ~is_long_note_command(command)
           /\ LET r == process_control_command(
                           [code_read(InterpRec, code_ptr)
                              EXCEPT !.code_ptr = @ + 1], command)
              IN  /\ StoreInterp(r[1])
                  /\ IF r[2] = 0
                     THEN ipc' = "control" /\ UNCHANGED result
                     ELSE /\ ipc' = "done"
                          /\ result' = IF r[2] > 0 THEN "ok" ELSE "fail"
           /\ rung' = IF command \in {CMD_ACTIVATE, CMD_DEACTIVATE}
                      THEN [rung EXCEPT
                              ![read_code_byte(
                                   [InterpRec EXCEPT !.code_ptr = @ + 1])[2]
                                  % 4] = -1]
                      ELSE rung
    /\ UNCHANGED <<samples, samples_generated, buffer_pos, last_sample>>
    /\ UNCHANGED running_seen

\* process_pure_control_commands leaves its loop with 0; lines 804-806
ControlsDone ==
    /\ ipc = "control"
    /\ IF code_ptr >= icode_size THEN TRUE
       ELSE LET command == object_code[code_ptr + 1]
            IN  ~is_control_command(command) \/ is_long_note_command(command)
    /\ IF code_ptr >= icode_size
       THEN ipc' = "done" /\ result' = "ok"
       ELSE ipc' = "notes" /\ UNCHANGED result
    /\ StoreInterp(IF code_ptr >= icode_size THEN InterpRec
                   ELSE code_read(InterpRec, code_ptr))
    /\ UNCHANGED <<samples, samples_generated, buffer_pos, last_sample>>
    /\ UNCHANGED <<running_seen, rung>>

\* lines 808-814: process_notes_for_voices and find_shortest_duration;
\* play_notes starts with its counters at 0 (lines 691-692)
Notes ==
    /\ ipc = "notes"
    /\ LET s1 == process_notes_for_voices(InterpRec)
           shortest == find_shortest_duration(s1)
       IN  /\ StoreInterp([s1 EXCEPT !.duration = shortest])
           /\ ipc' = IF shortest = VOICE_INACTIVE \/ shortest = 0
                     THEN "loop" ELSE "play"
           /\ rung' =
                [i \in 0 .. (MAX_VOICES - 1) |->
                    LET since == IF \E k \in (Len(inote_log) + 1)
                                               .. Len(s1.note_log) :
                                       s1.note_log[k].voice = i
                                 THEN 0 ELSE rung[i]
                    IN  IF /\ since >= 0
                           /\ shortest # VOICE_INACTIVE
                           /\ is_voice_active(s1.voices[i])
                           /\ ~is_voice_expired(s1.voices[i])
                        THEN since + shortest ELSE since]
    /\ samples_generated' = 0
    /\ buffer_pos' = 0
    /\ UNCHANGED <<result, samples, last_sample, running_seen>>

\* line 816: play_notes renders the event
Play ==
    /\ ipc = "play"
    /\ running /\ running_seen
    /\ StoreInterp(play_notes(InterpRec))
    /\ samples' = samples + tempo * duration
    /\ samples_generated' = tempo * duration
    /\ buffer_pos' = 0
    /\ last_sample' =
            generate_sample(advance_voices(InterpRec,
                                           tempo * duration - 1))[2]
    /\ ipc' = "loop"
    /\ UNCHANGED <<result, running_seen, rung>>

\* play_notes, one pass of its while loop: a sample goes into the buffer,
\* a full buffer goes to the sink (lines 694-704); the call that writes to
\* the sink is one the flag has to be read again after
PlaySample ==
    /\ ipc = "play"
    /\ samples_generated < tempo * duration
    /\ \E seen \in {running, running_seen} :
          /\ seen
          /\ running_seen' = IF buffer_pos + 1 >= BUFFER_FRAMES
                              THEN running ELSE seen
    /\ samples + buffer_pos < MaxSamples
    /\ LET r == generate_sample(InterpRec)
       IN  /\ StoreInterp(r[1])
           /\ last_sample' = r[2]
    /\ samples_generated' = samples_generated + 1
    /\ IF buffer_pos + 1 >= BUFFER_FRAMES
       THEN samples' = samples + buffer_pos + 1 /\ buffer_pos' = 0
       ELSE buffer_pos' = buffer_pos + 1 /\ UNCHANGED samples
    /\ UNCHANGED <<ipc, result, rung>>

\* play_notes without its last write: what is left in the buffer is lost
PlayEnd_drops_buffer ==
    /\ ipc = "play"
    /\ \E seen \in {running, running_seen} :
          /\ ~(samples_generated < tempo * duration /\ seen)
          /\ running_seen' = seen
    /\ buffer_pos' = 0
    /\ ipc' = "loop"
    /\ StoreInterp(InterpRec)
    /\ UNCHANGED <<result, samples, samples_generated, last_sample, rung>>

\* play_notes leaves its loop and writes what is left in the buffer
\* (lines 706-712)
PlayEnd ==
    /\ ipc = "play"
    /\ \E seen \in {running, running_seen} :
          /\ ~(samples_generated < tempo * duration /\ seen)
          /\ running_seen' = IF buffer_pos > 0 THEN running ELSE seen
    /\ samples' = samples + buffer_pos
    /\ buffer_pos' = 0
    /\ ipc' = "loop"
    /\ StoreInterp(InterpRec)
    /\ UNCHANGED <<result, samples_generated, last_sample, rung>>

\* main() of notint.c: the wavetable file and the object file are read,
\* option -j sets the jump budget, init_interpreter refuses an empty
\* image, interpret_loop starts with the default tempo
LoadFile(prog, jumps, tables) ==
    /\ ipc = "off"
    /\ Len(prog) > 0
    /\ Len(tables) > 0
    /\ object_code' = prog
    /\ config_max_jumps' = jumps
    /\ max_jumps' = jumps
    /\ wavetables' = tables
    /\ num_wavetables' = Len(tables)
    /\ tempo' = DEFAULT_TEMPO
    /\ ipc' = "loop"
    /\ UNCHANGED <<ivoices, code_ptr, duration, call_stack,
                   num_active_voices, running, running_seen, result,
                   samples, samples_generated, buffer_pos, last_sample,
                   rung, max_read, inote_log, cvars>>

(* ---------------------------------------------------------------------- *)
(* SpecRT: a source file is compiled and the object file is interpreted    *)
(* ---------------------------------------------------------------------- *)
InitRT == InitCompiler({0}, MaxRTSpecs, 1, 0) /\ InterpOff

NextRT ==
    \/ BeginLine
    \/ EndLine
    \/ EndOfFile
    \/ \E toks \in RTActArgs : Act(toks)
    \/ \E toks \in RTDctArgs : Dct(toks)
    \/ Abs
    \/ Rts
    \/ End
    \/ \E tok \in RTNoteToks : Note(tok)
    \/ Load
    \/ LoopTest
    \/ ControlCommand
    \/ ControlsDone
    \/ Notes
    \/ Play

SpecRT == InitRT /\ [][NextRT]_vars

(* ---------------------------------------------------------------------- *)
(* SpecInt: the interpreter runs an object file, sample by sample          *)
(* ---------------------------------------------------------------------- *)
\* an object file longer than 64 KiB: JUMP 0xFFFF, TEMPO 1 at 0xFFFF,
\* CALL 7 at 0x10001, RETURN at 7 and at 4, END at 0x10004
BigProgram ==
    [i \in 1 .. 65541 |->
        CASE i = 1 -> 64
          [] i \in {2, 3} -> 255
          [] i \in {5, 8} -> 48
          [] i = 65536 -> 16
          [] i = 65537 -> 1
          [] i = 65538 -> 32
          [] i = 65539 -> 7
          [] OTHER -> 0]

\* three voices sound; then NVC 2, voice 0 takes another note and END
\* leaves voices 1 and 2 with the notes they had
ThreeVoices ==
    <<144, 0, 144, 1, 144, 2, 16, 1, 96, 24, 4, 96, 48, 4, 96, 72, 4,
      80, 2, 112, 24, 20, 0>>

\* a long note, the same pitch again, a rest, the same pitch again, two
\* half steps up: 60 18 0F, 0F, 8F, 0F, 2F
RepeatedNote == <<144, 0, 16, 1, 96, 24, 15, 15, 143, 15, 47, 0>>

\* in a subroutine: ACTIVATE 0, a note, ACTIVATE 6, DEACTIVATE 0, a rest
\* for voice 2, DEACTIVATE 0xFF, RETURN
VoiceControl ==
    <<32, 4, 0, 0, 144, 0, 16, 1, 96, 24, 15, 144, 6, 128, 0, 143,
      128, 255, 48>>

\* TEMPO 3, a rest, TEMPO 0, a rest
ZeroTempo == <<144, 0, 16, 3, 143, 16, 0, 143, 0>>

\* three voices rest for 6, 6 and 12 units; the next notes are a rest for
\* voice 0, then TEMPO 1, then rests for voices 0 and 1, then for all
CutShort ==
    <<144, 0, 144, 1, 144, 2, 16, 1, 143, 143, 140, 143, 16, 1, 143, 143,
      143, 143, 143, 0>>

\* long notes with waveform numbers 2 and 3 and the duration codes 15 and 0
LongNotes == <<144, 0, 16, 1, 96, 24, 47, 112, 2, 48, 0>>

\* the CALL at offset 6 has one operand byte: it pushes 9 and calls the
\* RETURN at offset 5
ReturnBeyond == <<144, 0, 64, 6, 0, 48, 32, 5>>

Programs ==
    { <<144, 0, 96, 24, 4, 0>>,          \* 90 00 60 18 04 00
      <<38>>,                            \* a short note, no voice active
      <<96, 24, 4, 0>>,                  \* a long note, no voice active
      <<144, 0, 144, 1, 16, 1, 131, 134, 128, 1, 96, 24, 4, 0>>,
                                         \* a long note waits for voice 0
      ThreeVoices,
      <<144, 0, 16, 1, 143, 64, 4, 0>>,  \* a rest, then JUMP 4
      RepeatedNote,
      VoiceControl,
      ZeroTempo,
      CutShort,
      LongNotes,
      ReturnBeyond,
      <<144>>, <<128>>, <<80>>, <<16>>, <<32>>, <<144, 0, 16, 1, 96>>,
      <<144, 0, 16, 1, 143, 160, 143, 0>>, \* a rest, then the byte A0
      <<240>>,                             \* the byte F0
      <<32, 6, 0, 64, 0, 0, 48>>,        \* CALL 6, JUMP 0, RETURN
      <<32, 4, 0, 0, 32, 8, 0, 48, 48>>, \* nested calls
      <<32, 0, 0>>,                      \* CALL 0 for ever
      <<48>>,                            \* RETURN on an empty stack
      <<64, 3, 0>>,                      \* JUMP to code_size
      <<32, 3, 0>>,                      \* CALL to code_size
      <<64, 0, 1>>,                      \* JUMP beyond code_size
      <<64>>,                            \* JUMP, its operand cut off
      BigProgram }

JumpBudgets == {JUMPS_UNLIMITED, 0, 1, 2}

\* a flat table that saturates with two voices, and a ramp with a full page
WavetableFiles ==
    { <<[i \in 1 .. WAVETABLE_SIZE |-> 200]>>,
      <<[i \in 1 .. WAVETABLE_SIZE |-> i - 1],
        [i \in 1 .. WAVETABLE_SIZE |-> 255]>> }

InitInt == InitCompiler({0}, 0, 0, 0) /\ InterpOff

NextInt ==
    \/ \E prog \in Programs, jumps \in JumpBudgets,
          tables \in WavetableFiles : LoadFile(prog, jumps, tables)
    \/ LoopTest
    \/ ControlCommand
    \/ ControlsDone
    \/ Notes
    \/ PlaySample
    \/ PlayEnd

SpecInt == InitInt /\ [][NextInt]_vars

\* the interpreter is a running process: it takes its next step
InterpStep ==
    LoopTest \/ ControlCommand \/ ControlsDone \/ Notes \/ PlaySample
        \/ PlayEnd

(* ---------------------------------------------------------------------- *)
(* SpecHalt: runs with a finite jump budget on a processor that keeps      *)
(* executing the interpreter                                               *)
(* ---------------------------------------------------------------------- *)
NextHalt ==
    \/ \E prog \in {<<144, 0, 96, 24, 4, 0>>, <<38>>, <<96, 24, 4, 0>>,
                     <<48>>, <<64, 0, 0>>, <<32, 6, 0, 64, 0, 0, 48>>,
                     <<144, 0, 16, 1, 143, 64, 4, 0>>},
          jumps \in {0, 1, 2} :
            LoadFile(prog, jumps, <<[i \in 1 .. WAVETABLE_SIZE |-> 200]>>)
    \/ LoopTest
    \/ ControlCommand
    \/ ControlsDone
    \/ Notes
    \/ PlaySample
    \/ PlayEnd

SpecHalt == InitInt /\ [][NextHalt]_vars /\ WF_vars(InterpStep)

(* ---------------------------------------------------------------------- *)
(* SpecCancel: SIGINT or SIGTERM arrives while the interpreter runs        *)
(* ---------------------------------------------------------------------- *)
\* signal_handler, installed by main before interpret_loop
Cancel ==
    /\ ipc \notin {"off", "done"}
    /\ running
    /\ running' = FALSE
    /\ UNCHANGED <<object_code, num_wavetables, ivoices, code_ptr, tempo,
                   duration, call_stack, num_active_voices, running_seen,
                   max_jumps, config_max_jumps, ipc, result, wavetables,
                   samples, samples_generated, buffer_pos, last_sample,
                   rung, max_read, inote_log, cvars>>

NextCancel ==
    \/ \E prog \in {<<144, 0, 96, 24, 4, 0>>, <<38>>, <<48>>,
                     <<144, 0, 16, 1, 143, 64, 4, 0>>},
          jumps \in {0, 2} :
            LoadFile(prog, jumps, <<[i \in 1 .. WAVETABLE_SIZE |-> 200]>>)
    \/ LoopTest
    \/ ControlCommand
    \/ ControlsDone
    \/ Notes
    \/ PlaySample
    \/ PlayEnd
    \/ Cancel

SpecCancel == InitInt /\ [][NextCancel]_vars /\ WF_vars(InterpStep)

(* ---------------------------------------------------------------------- *)
(* SpecEvent: one source line of voice keywords and notes                  *)
(* ---------------------------------------------------------------------- *)
InitEvent == InitCompiler({0}, MaxEventSpecs, 1, MaxTail) /\ InterpOff

NextEvent ==
    \/ BeginLine
    \/ EndLine
    \/ EndOfFile
    \/ \E toks \in EventActArgs : Act(toks)
    \/ \E toks \in EventDctArgs : Dct(toks)
    \/ \E toks \in EventWavArgs : Wav(toks)
    \/ Abs
    \/ \E tok \in EventNoteToks : Note(tok)

SpecEvent == InitEvent /\ [][NextEvent]_vars

(* ---------------------------------------------------------------------- *)
(* SpecNote: one line of ACT 1 and notes of every duration and pitch       *)
(* ---------------------------------------------------------------------- *)
InitNote == InitCompiler({0}, MaxNoteSpecs, 1, MaxTail) /\ InterpOff

NextNote ==
    \/ BeginLine
    \/ EndLine
    \/ EndOfFile
    \/ \E toks \in NoteActArgs : Act(toks)
    \/ \E tok \in DurationToks \cup PitchToks : Note(tok)

SpecNote == InitNote /\ [][NextNote]_vars

(* ---------------------------------------------------------------------- *)
(* SpecCtl: one line of control keywords and a note                        *)
(* ---------------------------------------------------------------------- *)
InitCtl == InitCompiler({0}, MaxCtlSpecs, 1, MaxTail) /\ InterpOff

NextCtl ==
    \/ BeginLine
    \/ EndLine
    \/ EndOfFile
    \/ \E tok \in CtlNvcArgs : Nvc(tok)
    \/ \E toks \in CtlActArgs : Act(toks)
    \/ \E toks \in CtlDctArgs : Dct(toks)
    \/ \E tok \in CtlTpoArgs : Tpo(tok)
    \/ Rts
    \/ End
    \/ \E tok \in CtlNoteToks : Note(tok)

SpecCtl == InitCtl /\ [][NextCtl]_vars

(* ---------------------------------------------------------------------- *)
(* SpecLine: one line that may start with the identifier 1, of TPO 32,     *)
(* ACT 1, the notes C4Q and D4Q, and END                                   *)
(* ---------------------------------------------------------------------- *)
\* the note tokens C4Q and D4Q
LineNoteToks == {NoteTok(0, "C", "", 4, "Q", ""), NoteTok(0, "D", "", 4, "Q", "")}

InitLine == InitCompiler({0, 8192}, MaxLineSpecs, 1, 0) /\ InterpOff

NextLine ==
    \/ BeginLine
    \/ BeginLineId(1)
    \/ EndLine
    \/ EndOfFile
    \/ Tpo(32)
    \/ Act(<<1>>)
    \/ \E tok \in LineNoteToks : Note(tok)
    \/ End

SpecLine == InitLine /\ [][NextLine]_vars

(* ---------------------------------------------------------------------- *)
(* The compiler on source files that fill the image: lines of RTS that     *)
(* bring code_size close to MAX_CODE_SIZE, then RTS, SUB, ESB and END.     *)
(* ---------------------------------------------------------------------- *)
\* the numbers of RTS specifications the filler lines hold
FillerRuns == (MAX_CODE_SIZE - 4) .. MAX_CODE_SIZE

\* handle_rts for each of n RTS specifications, one on a line: process_file
\* reads no further line once the error flag is set (lines 323-325)
RECURSIVE rts_run(_, _)
rts_run(c, n) ==
    IF n = 0 THEN c
    ELSE IF n = 1 THEN handle_rts(c)
    ELSE LET c1 == rts_run(c, n \div 2)
         IN  IF c1.error_flag THEN c1 ELSE rts_run(c1, n - (n \div 2))

\* process_file compiles the first lines of the source file, which hold n
\* RTS specifications and nothing else
RtsLines(n) ==
    /\ cpc = "file"
    /\ source = <<>>
    /\ Store(rts_run(CompilerRec, n), "lines", <<n>>)
    /\ ops_used' = ops_used \cup {"RTS"}
    /\ UNCHANGED <<cpc, specs_left, lines_left, tail_left, object_written,
                   exit_status, wav_pending, abs_pending>>

InitFull == InitCompiler({0}, MaxFullSpecs, 1, MaxFullSpecs) /\ InterpOff

NextFull ==
    \/ \E n \in FillerRuns : RtsLines(n)
    \/ BeginLine
    \/ EndLine
    \/ EndOfFile
    \/ Rts
    \/ Sub
    \/ Esb
    \/ End

SpecFull == InitFull /\ [][NextFull]_vars

(* ---------------------------------------------------------------------- *)
(* SpecJump: source files of identifiers, JMP, JSR, RTS, SUB, ESB, END and *)
(* a note are compiled for several base addresses, and the object file is  *)
(* interpreted with a jump budget.                                         *)
(* ---------------------------------------------------------------------- *)
JumpBases == {0, 65535}

JumpNoteToks == {NoteTok(0, "C", "", 4, "Q", "")}

FlatTable == <<[i \in 1 .. WAVETABLE_SIZE |-> 200]>>

InitJump == InitCompiler(JumpBases, MaxJumpSpecs, 2, 2) /\ InterpOff

\* main() of notint.c on the object file the compiler wrote, with -j 1
LoadCompiled ==
    /\ cpc = "done"
    /\ object_written
    /\ LoadFile(code, 1, FlatTable)

NextJump ==
    \/ BeginLine
    \/ BeginLineId(1)
    \/ EndLine
    \/ EndOfFile
    \/ Act(<<1>>)
    \/ \E tok \in JumpNoteToks : Note(tok)
    \/ Jmp(1)
    \/ Jsr(1)
    \/ Rts
    \/ Sub
    \/ Esb
    \/ End
    \/ LoadCompiled
    \/ LoopTest
    \/ ControlCommand
    \/ ControlsDone
    \/ Notes
    \/ Play

SpecJump == InitJump /\ [][NextJump]_vars

(* ====================================================================== *)
(* Properties                                                              *)
(* ====================================================================== *)
RECURSIVE SumDur(_)
SumDur(log) == IF log = <<>> THEN 0 ELSE log[1].dur + SumDur(Tail(log))

\* the source file compiled without error and its last specification was END
\* (SpecRT lets nothing follow END on its line)
CompiledToEND == cpc = "done" /\ object_written /\ end_flag /\ ~error_flag

\* the k-th note the interpreter assigned is the k-th note the compiler
\* scheduled: same voice, same time units, a rest for a rest, and the
\* note_offset of a pitched note is twice the compiler's absolute pitch
NoteMatches(k) ==
    /\ inote_log[k].voice = note_log[k].voice
    /\ inote_log[k].dur = note_log[k].dur
    /\ inote_log[k].rest <=> (note_log[k].pitch = 0)
    /\ note_log[k].pitch # 0 => inote_log[k].offset = 2 * note_log[k].pitch

\* the interpreter has stopped at the END byte with success and has assigned
\* the compiled notes
InterpretedToEND ==
    /\ result = "ok"
    /\ code_ptr = icode_size
    /\ object_code[code_ptr] = CMD_END
    /\ Len(inote_log) = Len(note_log)
    /\ \A k \in 1 .. Len(note_log) : NoteMatches(k)

\* on the way there the interpreter assigns the notes in the compiler's
\* order, every pass over the voices assigns a note or finds an event to
\* play, and it never plays longer than the notes last
InterpretingToEND ==
    /\ Len(inote_log) <= Len(note_log)
    /\ \A k \in 1 .. Len(inote_log) : NoteMatches(k)
    /\ samples <= DEFAULT_TEMPO * SumDur(note_log)
    /\ ipc = "notes" =>
          LET s1 == process_notes_for_voices(InterpRec)
          IN  \/ Len(s1.note_log) > Len(inote_log)
              \/ find_shortest_duration(s1) \notin {0, VOICE_INACTIVE}

RefinementHolds ==
    /\ ipc # "off" => InterpretingToEND
    /\ ipc = "done" => InterpretedToEND

\* C1 as stated: a source file that compiles without error, uses no
\* JMP/JSR/SUB and ends with END is interpreted to its END with success,
\* note for note as the compiler scheduled it.
C1_AsStated ==
    (CompiledToEND /\ ops_used \cap {"JMP", "JSR", "SUB"} = {}) => RefinementHolds

\* C1: a source file that compiles without error, uses no JMP/JSR/RTS/SUB
\* and ends with END is interpreted to its END with success; the k-th note
\* is assigned to the voice the compiler scheduled it on, with the same
\* duration in time units, and after each pitched note the voice's
\* note_offset is twice the compiler's absolute pitch.
C1_Refinement ==
    (CompiledToEND /\ ops_used \cap {"JMP", "JSR", "RTS", "SUB"} = {})
        => RefinementHolds

\* two voices, a short and a long pitched note and an interpreter at END
C1_Witness ==
    /\ CompiledToEND
    /\ "RTS" \notin ops_used
    /\ ipc = "done"
    /\ Len(inote_log) >= 3
    /\ \E k \in 1 .. Len(note_log) : note_log[k].voice = 1
    /\ \E k \in 1 .. Len(note_log) : note_log[k].pitch # 0
    /\ \E i \in 1 .. Len(code) : code[i] = 7 * 16 + 3

(* ---------------------------------------------------------------------- *)
(* Steps of the compiler, as action-level predicates                       *)
(* ---------------------------------------------------------------------- *)
\* the step handled a note and gave it to a voice
NoteStep == last'.op = "NOTE" /\ Len(note_log') = Len(note_log) + 1

\* the voice that note went to, and the note as written
StepVoice == note_log'[Len(note_log')].voice

StepTok == last'.arg[1]

\* the step handled one of the keywords ops
KeywordStep(ops) == specs_left' = specs_left - 1 /\ last'.op \in ops

\* the absolute pitch of a note written with its octave
TokPitch(tok) == 12 * tok.octave + parse_note_pitch(tok.letter, tok.acc) - 12

TokCode(tok) == duration_code_of(tok.dur, tok.mod)

NibbleDelta(n) == IF n >= 8 THEN n - 16 ELSE n

Reported(e, log) == \E i \in 1 .. Len(log) : log[i] = e

ActiveAtClose == {i \in Voices : close_snap[i] # INACTIVE_VOICE_DURATION}

MinAtClose ==
    CHOOSE m \in {close_snap[i] : i \in ActiveAtClose} :
        \A i \in ActiveAtClose : m <= close_snap[i]

\* C2 as stated: when the compiler closes an event, immediately before the
\* minimum is subtracted every active voice has duration > 0 and exactly one
\* active voice holds the minimum duration.
C2_AsStated ==
    close_snap # NoSnap =>
        /\ \A i \in ActiveAtClose : close_snap[i] > 0
        /\ Cardinality({i \in ActiveAtClose : close_snap[i] = MinAtClose}) = 1

\* C2: when the compiler closes an event, immediately before the minimum is
\* subtracted some voice is active, every active voice has duration > 0, and
\* one or more active voices hold the minimum duration.
C2_EventClosure ==
    close_snap # NoSnap =>
        /\ ActiveAtClose # {}
        /\ \A i \in ActiveAtClose : close_snap[i] > 0
        /\ Cardinality({i \in ActiveAtClose : close_snap[i] = MinAtClose}) >= 1

\* an event closes with two active voices of different durations
C2_Witness ==
    /\ close_snap # NoSnap
    /\ \E i, j \in ActiveAtClose : close_snap[i] < close_snap[j]

\* C3: after the compiler closes an event, some active voice has duration 0
\* and held the minimum before the close; every active voice has lost
\* exactly the minimum, without underflow and without becoming the inactive
\* sentinel 0xFF; and the first note of an event goes to the lowest-index
\* voice whose duration is 0.
C3_AfterClose ==
    /\ [](close_snap # NoSnap =>
            /\ \E i \in ActiveAtClose :
                   voices[i].duration = 0 /\ close_snap[i] = MinAtClose
            /\ \A i \in ActiveAtClose :
                   /\ voices[i].duration = close_snap[i] - MinAtClose
                   /\ voices[i].duration # INACTIVE_VOICE_DURATION
            /\ \A i \in Voices \ ActiveAtClose :
                   voices[i].duration = INACTIVE_VOICE_DURATION)
    /\ [][(NoteStep /\ ~event_building) =>
            /\ voices[StepVoice].duration = 0
            /\ \A j \in 0 .. (StepVoice - 1) : voices[j].duration # 0]_vars

\* voice 1 still sounds after a close and the next event's only note has
\* gone to voice 2
C3_Witness ==
    /\ last.op = "NOTE"
    /\ close_snap # NoSnap
    /\ Len(note_log) >= 3
    /\ note_log[Len(note_log)].voice = 1
    /\ note_log[Len(note_log) - 1].voice = 1
    /\ close_snap[0] \notin {0, INACTIVE_VOICE_DURATION}

OpcodeKeywords == {"NVC", "ACT", "DCT", "TPO", "JMP", "JSR", "RTS", "SUB", "END"}

\* C4 as stated: every keyword that emits an opcode (NVC, ACT, DCT, TPO, JMP,
\* JSR, RTS, SUB, END), processed with a valid operand while event_building
\* is true, reports ERR_EXEC_CTRL_IN_EVENT and clears event_building.
C4_AsStated ==
    [][(KeywordStep(OpcodeKeywords) /\ event_building /\ Len(code') > Len(code)) =>
         (Reported("ERR_EXEC_CTRL_IN_EVENT", errs') /\ ~event_building')]_vars

\* C5: a pitched note of absolute pitch p and duration code d, on a voice of
\* previous pitch q and waveform w, is emitted as the one byte
\* (((p-q) & 0x0F) << 4) | d when use_absolute is false, q # 0 and p - q is
\* in [-7, 7], and as the three bytes 0x60, 2p, (w << 4) | d in every other
\* case; afterwards the voice's pitch is p and its use_absolute is false.
C5_NoteBytes ==
    [][(NoteStep /\ ~StepTok.rest) =>
         LET v == StepVoice
             p == TokPitch(StepTok)
             d == TokCode(StepTok)
             q == voices[v].pitch
             w == voices[v].waveform
         IN  /\ IF ~voices[v].use_absolute /\ q # 0 /\ p - q \in -7 .. 7
                THEN code' = Append(code, ((p - q) % 16) * 16 + d)
                ELSE code' = code \o <<96, 2 * p, w * 16 + d>>
             /\ voices'[v].pitch = p
             /\ ~voices'[v].use_absolute]_vars

\* C4Q has followed G4H on a voice as the one byte 0x96 (7 down, code 6)
C5_Witness ==
    /\ last.op = "NOTE"
    /\ Len(code) = last.start + 1
    /\ code[Len(code)] = 9 * 16 + 6

\* C6: every one-byte note the compiler emits has a non-zero duration nibble;
\* its pitch nibble is 1000 exactly when the note is a rest, and otherwise
\* encodes the note's distance in [-7, 7] from the voice's previous pitch;
\* and no pitched one-byte note is emitted for a voice whose use_absolute is
\* set.
C6_ShortNotes ==
    [][(NoteStep /\ Len(code') = Len(code) + 1) =>
         LET b == code'[Len(code')]
             v == StepVoice
         IN  /\ b % 16 # 0
             /\ NibbleDelta(b \div 16) \in -8 .. 7
             /\ (b \div 16 = 8) <=> StepTok.rest
             /\ ~StepTok.rest =>
                  /\ ~voices[v].use_absolute
                  /\ voices'[v].pitch - voices[v].pitch = NibbleDelta(b \div 16)]_vars

\* G4H has followed C4Q on a voice as the one byte 0x73 (7 up, code 3)
C6_Witness ==
    /\ last.op = "NOTE"
    /\ Len(code) = last.start + 1
    /\ code[Len(code)] = 7 * 16 + 3

\* C7 as stated: after WAV w,v is accepted, the next pitched note emitted for
\* voice v is a 3-byte long note (prefix 0x60) whose third byte has high
\* nibble w-1.
C7_AsStated ==
    [][(NoteStep /\ ~StepTok.rest /\ wav_pending[StepVoice] # 0) =>
         /\ Len(code') = Len(code) + 3
         /\ code'[Len(code) + 1] = OP_LONG_NOTE
         /\ code'[Len(code) + 3] \div 16 = wav_pending[StepVoice] - 1]_vars

\* C8 as stated: after ABS, every opcode emitted for the next event is a
\* 3-byte long note; here for the note that completes the event.
C8_AsStated ==
    [][(NoteStep /\ abs_pending /\ close_snap' # NoSnap) =>
         /\ Len(code') = Len(code) + 3
         /\ code'[Len(code) + 1] = OP_LONG_NOTE]_vars

\* C8: after an ABS given between events, every pitched note of the next
\* event is emitted as a 3-byte long note (prefix 0x60), and a rest of that
\* event as the one byte 0x80 | code.
C8_AfterABS ==
    [][(NoteStep /\ abs_pending) =>
         IF StepTok.rest
         THEN code' = Append(code, 128 + TokCode(StepTok))
         ELSE /\ Len(code') = Len(code) + 3
              /\ code'[Len(code) + 1] = OP_LONG_NOTE]_vars

\* ACT 1,2 C4Q C4Q ABS C4Q C4Q: the event after ABS repeats both pitches in
\* long form
C8_Witness ==
    /\ "ABS" \in ops_used
    /\ close_snap # NoSnap
    /\ Len(note_log) = 4
    /\ \A k \in 1 .. 4 : note_log[k].pitch = 37
    /\ Len(code) = 16

SymbolOffset(i) == (symbols[i].address - base_address) % 65536

IdsDistinct ==
    \A i, j \in 1 .. Len(symbols) : i # j => symbols[i].id # symbols[j].id

\* the step before was a JMP or JSR that emitted its three bytes
JumpEmitted == last.op \in {"JMP", "JSR"} /\ Len(code) = last.start + 3

JumpOperand == code[last.start + 2] + 256 * code[last.start + 3]

\* C9 as stated: at every point of compilation, for every base_address,
\* symbol ids are pairwise distinct, recorded addresses are non-decreasing in
\* declaration order, and every JMP/JSR operand emitted resolves to an
\* absolute address in [base_address, base_address + code_size].
C9_AsStated ==
    /\ IdsDistinct
    /\ \A i, j \in 1 .. Len(symbols) :
           i < j => symbols[i].address <= symbols[j].address
    /\ JumpEmitted =>
           \E i \in 1 .. Len(symbols) :
               /\ symbols[i].id = last.arg[1]
               /\ JumpOperand = SymbolOffset(i)
               /\ symbols[i].address >= base_address
               /\ symbols[i].address <= base_address + Len(code)

\* C9: at every point of compilation, for every base_address, symbol ids are
\* pairwise distinct; the recorded addresses are base_address plus a code
\* offset, modulo 2^16; these offsets are non-decreasing in declaration
\* order and at most code_size; and every JMP/JSR operand emitted is the
\* offset of its id, in [0, code_size].
C9_SymbolTable ==
    /\ IdsDistinct
    /\ \A i, j \in 1 .. Len(symbols) :
           i < j => SymbolOffset(i) <= SymbolOffset(j)
    /\ \A i \in 1 .. Len(symbols) : SymbolOffset(i) <= Len(code)
    /\ JumpEmitted =>
           /\ JumpOperand \in 0 .. Len(code)
           /\ \E i \in 1 .. Len(symbols) :
                  symbols[i].id = last.arg[1] /\ JumpOperand = SymbolOffset(i)

\* with base 0xFFFF the second identifier's address has wrapped below the
\* first's, and a jump to it has been emitted
C9_Witness ==
    /\ base_address = 65535
    /\ Len(symbols) = 2
    /\ symbols[2].address < symbols[1].address
    /\ JumpEmitted
    /\ last.arg[1] = symbols[2].id

\* C10: JMP id / JSR id for an id declared earlier emits 0x40 / 0x20 and the
\* low then the high byte of (symbol address - base_address), which is the
\* code offset at which the id was declared; for an id not yet declared it
\* reports ERR_UNDEFINED_IDENTIFIER, emits no byte, and the line goes on.
C10_Jumps ==
    /\ [][\A op \in {"JMP", "JSR"} : KeywordStep({op}) =>
            LET id == last'.arg[1]
            IN  IF \E i \in 1 .. Len(symbols) : symbols[i].id = id
                THEN \E i \in 1 .. Len(symbols) :
                       /\ symbols[i].id = id
                       /\ code' = code \o
                            <<IF op = "JMP" THEN 64 ELSE 32,
                              SymbolOffset(i) % 256, SymbolOffset(i) \div 256>>
                ELSE /\ Reported("ERR_UNDEFINED_IDENTIFIER", errs')
                     /\ code' = code
                     /\ cpc' = "line"]_vars
    /\ [][Len(symbols') = Len(symbols) + 1 =>
            /\ symbols'[Len(symbols')].address = (base_address + Len(code)) % 65536
            /\ SubSeq(symbols', 1, Len(symbols)) = symbols
            /\ code' = code]_vars

\* JSR to an identifier declared behind two bytes of code
C10_Witness ==
    /\ last.op = "JSR"
    /\ Len(code) = last.start + 3
    /\ code[Len(code) - 2] = 32
    /\ code[Len(code) - 1] = 2
    /\ code[Len(code)] = 0

\* C11: SUB while a SUB is open reports ERR_NESTED_SUB_ESB, ESB with no SUB
\* open reports ERR_ESB_WITHOUT_SUB, END with a SUB open reports
\* ERR_HANGING_SUB; a rejected SUB or ESB emits no byte, patches nothing and
\* leaves the pending slot as it was; and none of the three errors is
\* reported otherwise.
C11_SubEsbErrors ==
    /\ [][KeywordStep({"SUB"}) =>
            IF sub_address # 0
            THEN /\ Reported("ERR_NESTED_SUB_ESB", errs')
                 /\ code' = code
                 /\ sub_address' = sub_address
            ELSE ~Reported("ERR_NESTED_SUB_ESB", errs')]_vars
    /\ [][KeywordStep({"ESB"}) =>
            IF sub_address = 0
            THEN /\ Reported("ERR_ESB_WITHOUT_SUB", errs')
                 /\ code' = code
                 /\ sub_address' = sub_address
            ELSE ~Reported("ERR_ESB_WITHOUT_SUB", errs')]_vars
    /\ [][KeywordStep({"END"}) =>
            (Reported("ERR_HANGING_SUB", errs') <=> sub_address # 0)]_vars

\* a second SUB has been rejected behind the three bytes of the first
C11_Witness ==
    /\ last.op = "SUB"
    /\ Reported("ERR_NESTED_SUB_ESB", errs)
    /\ sub_address = 1
    /\ code = <<OP_JMP, 0, 0>>

\* C12 as stated: whenever the compilation ends without error and the object
\* file is written, the pending SUB slot is empty, so that every jump emitted
\* by SUB has had its operand patched by an ESB.
C12_AsStated ==
    (cpc = "done" /\ object_written) => sub_address = 0

\* C13: a SUB that is accepted appends 0x40 0x00 0x00 and records the offset
\* of the operand in the pending slot; while the slot is open it names the
\* two placeholder bytes behind that 0x40; the ESB that closes the slot
\* overwrites exactly those two bytes with the low and the high byte of
\* code_size, the offset of the next byte to be emitted, appends nothing and
\* changes no other byte of the image.
C13_SubEsbPatch ==
    /\ [](sub_address # 0 =>
            /\ sub_address + 2 <= Len(code)
            /\ code[sub_address] = OP_JMP
            /\ code[sub_address + 1] = 0
            /\ code[sub_address + 2] = 0)
    /\ [][(KeywordStep({"SUB"}) /\ sub_address = 0) =>
            /\ code' = code \o <<64, 0, 0>>
            /\ sub_address' = Len(code) + 1]_vars
    /\ [][(KeywordStep({"ESB"}) /\ sub_address # 0) =>
            /\ sub_address' = 0
            /\ Len(code') = Len(code)
            /\ \A i \in 1..Len(code) :
                  code'[i] = IF i = sub_address + 1 THEN Len(code) % 256
                             ELSE IF i = sub_address + 2 THEN Len(code) \div 256
                             ELSE code[i]]_vars

\* SUB RTS ESB: the jump over the RTS has been patched to offset 4
C13_Witness ==
    /\ last.op = "ESB" /\ sub_address = 0 /\ code = <<64, 4, 0, 48>>

\* C14 as stated: once END has been processed, no further specification
\* appends code, so the image ends with the 0x00 that END emitted.
C14_AsStated ==
    [][end_flag => code' = code]_vars

\* C15: once a compile error has been reported the error flag is set and no
\* later step clears it; while it is set the object file is not written, and
\* a run that has ended with the flag set has a non-zero exit status.
C15_ErrorLatched ==
    /\ [](errs # <<>> => error_flag)
    /\ [][error_flag => error_flag']_vars
    /\ [](error_flag => ~object_written)
    /\ []((error_flag /\ cpc \in {"done", "exit"}) => exit_status > 0)

\* a run has ended after an error that an earlier step reported behind
\* emitted code: no object file, exit status EXIT_FAILURE
C15_Witness ==
    /\ cpc = "done" /\ error_flag /\ errs = <<>> /\ Len(code) > 0
    /\ ~object_written /\ exit_status = 1

\* C16 as stated: when a line on which a non-fatal error was reported has been
\* finished without END, the compiler goes on to read the following lines of
\* the file.
C16_AsStated ==
    [][(cpc = "line" /\ cpc' \notin {"line", "exit"} /\ error_flag /\ ~end_flag)
          => cpc' = "file"]_vars

\* the time units of the duration codes 1..15
CanonicalUnits ==
    <<192, 144, 96, 72, 64, 48, 36, 32, 24, 18, 16, 12, 9, 8, 6>>

\* the note of this step was scheduled: the low nibble of the last byte
\* emitted is a duration code 1..15, and the time units stored for the note
\* are the canonical ones, which DURATION_TABLE holds for the same code
CanonicalDuration ==
    LET k == code'[Len(code')] % 16
    IN  /\ Len(code') > Len(code)
        /\ k \in 1 .. 15
        /\ note_log'[Len(note_log')].dur = CanonicalUnits[k]
        /\ DURATION_TABLE[k + 1] = CanonicalUnits[k]

\* C17 as stated: of the 18 combinations of a duration letter and a
\* modifier, triplet-whole and dotted-thirty-second are rejected with
\* ERR_ILLEGAL_DURATION, and every combination that is accepted yields a
\* duration code 1..15 with the canonical time units of DURATION_TABLE.
C17_AsStated ==
    [][KeywordStep({"NOTE"}) =>
         /\ <<StepTok.dur, StepTok.mod>> \in {<<"W", "3">>, <<"T", ".">>}
               => Reported("ERR_ILLEGAL_DURATION", errs')
         /\ NoteStep => CanonicalDuration]_vars

\* C17: of the 18 combinations of a duration letter and a modifier,
\* dotted-whole, triplet-whole and triplet-thirty-second are rejected with
\* ERR_ILLEGAL_DURATION and emit nothing; each of the other 15, the
\* dotted thirty-second among them, is accepted, and a note scheduled with it
\* carries a duration code 1..15 and the canonical time units that
\* DURATION_TABLE holds for that code.
C17_DurationCodes ==
    [][KeywordStep({"NOTE"}) =>
         IF <<StepTok.dur, StepTok.mod>> \in {<<"W", ".">>, <<"W", "3">>, <<"T", "3">>}
         THEN /\ Reported("ERR_ILLEGAL_DURATION", errs')
              /\ code' = code /\ note_log' = note_log
         ELSE /\ ~Reported("ERR_ILLEGAL_DURATION", errs')
              /\ NoteStep => CanonicalDuration]_vars

\* ACT 1 and a dotted thirty-second rest: code 13 with 9 time units
C17_Witness ==
    /\ last.op = "NOTE" /\ last.arg[1].dur = "T" /\ last.arg[1].mod = "."
    /\ errs = <<>> /\ code = <<144, 0, 128 + 13>>
    /\ Len(note_log) = 1 /\ note_log[1].voice = 0 /\ note_log[1].dur = 9
    /\ note_log[1].pitch = 0

\* the chromatic slot 1..12 of a note name: C is 1, a sharp raises and a
\* flat lowers by one, around the octave
NaturalSlot(l) ==
    CASE l = "C" -> 1 [] l = "D" -> 3 [] l = "E" -> 5 [] l = "F" -> 6
      [] l = "G" -> 8 [] l = "A" -> 10 [] l = "B" -> 12

SlotOf(tok) ==
    LET d == IF tok.acc = "#" THEN 1 ELSE IF tok.acc = "@" THEN -1 ELSE 0
    IN  ((NaturalSlot(tok.letter) + d - 1) % 12) + 1

\* the octave available to the note of this step: its digit, else the last
\* octave of the voice it is scheduled on, else 0
StepOctave ==
    IF StepTok.octave # 0 THEN StepTok.octave ELSE voices[StepVoice].octave

StepPitch == StepOctave * 12 + SlotOf(StepTok) - 12

\* C18: a pitched note scheduled on a voice is accepted without error exactly
\* when an octave is available (its digit 1..6, or the last octave of the
\* voice) and octave*12 + slot - 12 lies in 1..61; otherwise
\* ERR_PITCH_OUT_OF_RANGE, and nothing else, is reported.  An accepted note is
\* stored with that pitch, and the pitch byte of every long note emitted is
\* 2p with p in 1..61, p being that pitch when the note is accepted.
C18_PitchRange ==
    [][(NoteStep /\ ~StepTok.rest /\ StepTok.voice = 0) =>
         LET ok == StepOctave # 0 /\ StepPitch \in 1 .. 61
             b  == code'[Len(code) + 2]
         IN  /\ errs' = <<>> <=> ok
             /\ ~ok => errs' = <<"ERR_PITCH_OUT_OF_RANGE">>
             /\ ok => note_log'[Len(note_log')].pitch = StepPitch
             /\ Len(code') = Len(code) + 3 =>
                   /\ code'[Len(code) + 1] = 96
                   /\ b % 2 = 0 /\ b \div 2 \in 1 .. 61
                   /\ ok => b = 2 * StepPitch]_vars

\* ACT 1, C6Q, C#Q: pitch 61 has been accepted as the long note 60 7A 06,
\* and C# in the voice's octave 6, pitch 62, has been rejected
C18_Witness ==
    /\ last.op = "NOTE" /\ last.arg[1].letter = "C" /\ last.arg[1].acc = "#"
    /\ last.arg[1].octave = 0 /\ ~last.arg[1].rest
    /\ errs = <<"ERR_PITCH_OUT_OF_RANGE">>
    /\ Len(code) > 5 /\ SubSeq(code, 1, 5) = <<144, 0, 96, 122, 6>>

\* the bytes an instruction takes in the image, by its first byte: a byte
\* with a non-zero low nibble is a short note or a rest; with a zero low
\* nibble the high nibble selects END, TEMPO, CALL, RETURN, JUMP, SETVOICES,
\* a long note, DEACTIVATE or ACTIVATE
OpLength(b) ==
    IF b % 16 # 0 THEN 1
    ELSE CASE b \div 16 \in {1, 5, 8, 9} -> 2
           [] b \div 16 \in {2, 4, 6, 7} -> 3
           [] OTHER -> 1

\* every long-note prefix found in opcode position from index i on is
\* followed by two more bytes, the second with a non-zero low nibble
RECURSIVE LongNotesWellFormed(_, _)
LongNotesWellFormed(img, i) ==
    IF i > Len(img) THEN TRUE
    ELSE /\ img[i] \in {96, 112} =>
               (i + 2 <= Len(img) /\ img[i + 2] % 16 # 0)
         /\ LongNotesWellFormed(img, i + OpLength(img[i]))

\* the image holds a long note and a short note of high nibble 7
HasLongAndShort(img) ==
    /\ \E i \in 1 .. Len(img) : img[i] = 96
    /\ \E i \in 1 .. Len(img) : img[i] = 7 * 16 + 3

\* C19: in the image of a compilation that has met no error, every long-note
\* prefix in opcode position is 0x60 or 0x70 followed by two more bytes of
\* the same note, and the low nibble of the third byte is not zero.
C19_LongNotes ==
    ~error_flag => LongNotesWellFormed(code, 1)

\* an object file has been written that holds long notes and the short
\* note 0x73
C19_Witness ==
    /\ cpc = "done" /\ object_written /\ HasLongAndShort(code)
    /\ LongNotesWellFormed(code, 1)

ControlKeywords == {"NVC", "ACT", "DCT", "TPO", "RTS", "END"}

\* the operand of the keyword is inside its range
ValidOperand(op, arg) ==
    CASE op = "NVC" -> arg[1] \in 1 .. NUM_VOICES
      [] op \in {"ACT", "DCT"} -> \A i \in 1 .. Len(arg) : arg[i] \in 1 .. NUM_VOICES
      [] op = "TPO" -> arg[1] \in MIN_TEMPO .. MAX_TEMPO
      [] OTHER -> TRUE

\* 0x90 (v-1) or 0x80 (v-1) for every voice of the list, in its order
RECURSIVE VoiceBytes(_, _)
VoiceBytes(opcode, arg) ==
    IF arg = <<>> THEN <<>>
    ELSE <<opcode, Head(arg) - 1>> \o VoiceBytes(opcode, Tail(arg))

\* the bytes of a control keyword
KeywordBytes(op, arg) ==
    CASE op = "NVC" -> <<80, arg[1]>>
      [] op = "ACT" -> VoiceBytes(144, arg)
      [] op = "DCT" -> VoiceBytes(128, arg)
      [] op = "TPO" -> <<16, arg[1]>>
      [] op = "RTS" -> <<48>>
      [] op = "END" -> <<0>>

\* C20: a control keyword with valid operands outside an event appends its
\* bytes behind the code of the specifications before it and nothing else,
\* without error: NVC n -> 0x50 n, ACT/DCT -> 0x90/0x80 (v-1) for every
\* listed voice, TPO t -> 0x10 t, RTS -> 0x30, END -> 0x00.  So the line
\* " TPO 60 NVC 2 ACT 1,2 END" compiles to 10 3C 50 02 90 00 90 01 00 and
\* the line " NVC 1 ACT 1 END" to 50 01 90 00 00.
C20_ControlBytes ==
    /\ [][(KeywordStep(ControlKeywords) /\ ~event_building
             /\ ValidOperand(last'.op, last'.arg)) =>
            /\ code' = code \o KeywordBytes(last'.op, last'.arg)
            /\ errs' = <<>>]_vars
    /\ [](source = << <<"line", <<>> >>, <<"TPO", <<60>> >>, <<"NVC", <<2>> >>,
                      <<"ACT", <<1, 2>> >>, <<"END", <<>> >> >>
            => code = <<16, 60, 80, 2, 144, 0, 144, 1, 0>>)
    /\ [](source = << <<"line", <<>> >>, <<"NVC", <<1>> >>, <<"ACT", <<1>> >>,
                      <<"END", <<>> >> >>
            => code = <<80, 1, 144, 0, 0>>)

\* the line " TPO 60 NVC 2 ACT 1,2 END" has been compiled without error
C20_Witness ==
    /\ source = << <<"line", <<>> >>, <<"TPO", <<60>> >>, <<"NVC", <<2>> >>,
                   <<"ACT", <<1, 2>> >>, <<"END", <<>> >> >>
    /\ code = <<16, 60, 80, 2, 144, 0, 144, 1, 0>>
    /\ ~error_flag /\ end_flag

\* the i-th step read the quarter note of letter l in octave 4, written
\* without voice digit, accidental or modifier
ReadQuarter(i, l) ==
    /\ source[i][1] = "NOTE"
    /\ LET tok == source[i][2][1]
       IN  /\ ~tok.rest /\ tok.voice = 0 /\ tok.letter = l /\ tok.acc = ""
           /\ tok.octave = 4 /\ tok.dur = "Q" /\ tok.mod = ""

\* the line "1 TPO 32 ACT 1 C4Q D4Q END" as read
Line_C21 ==
    /\ Len(source) = 6
    /\ source[1] = <<"id", <<1>> >> /\ source[2] = <<"TPO", <<32>> >>
    /\ source[3] = <<"ACT", <<1>> >>
    /\ ReadQuarter(4, "C") /\ ReadQuarter(5, "D")
    /\ source[6] = <<"END", <<>> >>

\* symbol 1 is recorded at code offset 0, and the code is TPO 32, ACT 1, C4
\* in long form, the one byte b for D4, and END
Compiled_C21(b) ==
    /\ ~error_flag
    /\ Len(symbols) = 1 /\ symbols[1].id = 1 /\ SymbolOffset(1) = 0
    /\ code = <<16, 32, 144, 0, 96, 74, 6, b, 0>>

\* C21 as stated: the line "1 TPO 32 ACT 1 C4Q D4Q END" records symbol 1 at
\* code offset 0, emits C4 in long form and emits D4Q as the short-form byte
\* 0x27, delta +2 above duration code 7.
C21_AsStated ==
    Line_C21 => Compiled_C21(2 * 16 + 7)

\* C21: the line "1 TPO 32 ACT 1 C4Q D4Q END" records symbol 1 at code
\* offset 0, emits C4 in long form and emits D4Q as the short-form byte
\* 0x26: delta +2 above duration code 6, the code of a quarter note.
C21_ExampleLine ==
    Line_C21 => Compiled_C21(2 * 16 + 6)

\* the line has been compiled, at either base address
C21_Witness ==
    /\ Line_C21 /\ end_flag /\ Len(code) = 9
    /\ Len(note_log) = 2 /\ note_log[1].pitch = 37 /\ note_log[2].pitch = 39
    /\ note_log[1].dur = 48 /\ note_log[2].dur = 48

\* the index the search for a voice starts at: voice_ptr inside an event,
\* 0 when the note starts one
SearchStart == IF event_building THEN voice_ptr ELSE 0

\* C22: a note scheduled within an event goes to the lowest-index voice at
\* or above voice_ptr whose duration is 0; unless the event is closed by it,
\* voice_ptr moves behind that voice, so that the voices of an event are
\* filled in strictly increasing order, one note each, and the event is
\* closed exactly when no higher voice needs a note.  ERR_VOICE_MISMATCH is
\* reported exactly when the note's voice digit names another voice.  A note
\* of legal duration that arrives when no voice is active reports
\* ERR_NO_VOICES_ACTIVE, emits nothing and ends the run.
C22_VoiceOrder ==
    /\ [][NoteStep =>
            /\ StepVoice >= SearchStart
            /\ voices[StepVoice].duration = 0
            /\ \A j \in SearchStart .. (StepVoice - 1) : voices[j].duration # 0
            /\ voices'[StepVoice].duration # 0 \/ ~event_building'
            /\ event_building' => voice_ptr' = StepVoice + 1
            /\ event_building' <=>
                  \E j \in (StepVoice + 1) .. (NUM_VOICES - 1) : voices[j].duration = 0
            /\ Reported("ERR_VOICE_MISMATCH", errs') <=>
                  (StepTok.voice # 0 /\ StepTok.voice - 1 # StepVoice)]_vars
    /\ [][(KeywordStep({"NOTE"}) /\ TokCode(StepTok) # 0
             /\ \A i \in Voices : voices[i].duration = INACTIVE_VOICE_DURATION) =>
            /\ errs' = <<"ERR_NO_VOICES_ACTIVE">>
            /\ cpc' = "exit" /\ code' = code /\ note_log' = note_log]_vars

\* the second note of an event, written for voice 2, has gone to voice 2
\* behind voice 1 without error and has closed the event
C22_Witness ==
    /\ last.op = "NOTE" /\ last.arg[1].voice = 2 /\ Len(note_log) >= 2
    /\ note_log[Len(note_log)].voice = 1 /\ note_log[Len(note_log) - 1].voice = 0
    /\ errs = <<>> /\ ~error_flag /\ ~event_building /\ close_snap # NoSnap

(* ---------------------------------------------------------------------- *)
(* The interpreter, sample by sample (SpecInt)                             *)
(* ---------------------------------------------------------------------- *)
\* samples the sink has received or will receive with the next write
Rendered == samples + buffer_pos

ExampleProgram == <<144, 0, 96, 24, 4, 0>>

\* C23: the samples delivered are the sum over the rendered events of
\* tempo x duration: an event starts with nothing generated, every pass
\* adds exactly one sample while tempo and duration stand still, the event
\* ends only when tempo x duration samples were generated and the rest of
\* the buffer is written, and nothing else changes the count; the object
\* file 90 00 60 18 04 00 renders 32 x 72 = 2304 samples and stops at END.
C23_SamplesRendered ==
    /\ [](ipc # "play" => buffer_pos = 0)
    /\ [][(ipc = "notes" /\ ipc' = "play") =>
            samples_generated' = 0 /\ Rendered' = Rendered]_vars
    /\ [][(ipc = "play" /\ ipc' = "loop") =>
            /\ samples_generated = tempo * duration
            /\ samples' = samples + buffer_pos]_vars
    /\ [][Rendered' # Rendered =>
            /\ ipc = "play" /\ ipc' = "play"
            /\ Rendered' = Rendered + 1
            /\ samples_generated' = samples_generated + 1
            /\ tempo' = tempo /\ duration' = duration]_vars
    /\ []((object_code = ExampleProgram /\ ipc = "done") =>
            /\ samples = DEFAULT_TEMPO * 72
            /\ result = "ok"
            /\ code_ptr = 6)

C23_Witness ==
    /\ object_code = ExampleProgram
    /\ ipc = "done"
    /\ samples = 2304
    /\ samples_generated = 2304
    /\ Len(inote_log) = 1

\* what voice i adds to the sample that is generated next
Contribution(i) ==
    IF i < num_active_voices /\ ivoices[i].freq_increment # 0
    THEN wavetables[ivoices[i].wavetable_page + 1][ivoices[i].phase_int + 1]
    ELSE 0

MixSum == Contribution(0) + Contribution(1) + Contribution(2) + Contribution(3)

Phase16(voice) == voice.phase_int * 256 + voice.phase_frac

SampleStep == ipc = "play" /\ samples_generated' = samples_generated + 1

\* C24: every sample is min(255, S), S the sum of the wavetable bytes at
\* phase_int of the voices below num_active_voices whose freq_increment is
\* not zero; those voices advance by their increment, every other voice
\* keeps its phase; the sample is in 0 .. 255.
C24_SaturatedMix ==
    /\ [](last_sample \in 0 .. SAMPLE_MAX)
    /\ [][SampleStep =>
            /\ last_sample' = IF MixSum > 255 THEN 255 ELSE MixSum
            /\ \A i \in 0 .. (MAX_VOICES - 1) :
                 IF i < num_active_voices /\ ivoices[i].freq_increment # 0
                 THEN Phase16(ivoices'[i]) =
                        (Phase16(ivoices[i]) + ivoices[i].freq_increment)
                            % 65536
                 ELSE ivoices'[i] = ivoices[i]]_vars

\* two of three sounding voices are mixed and saturate
C24_Witness ==
    /\ ipc = "play"
    /\ samples_generated > 0
    /\ num_active_voices = 2
    /\ ivoices[2].freq_increment # 0
    /\ Phase16(ivoices[2]) # 0
    /\ wavetables[1][1] = 200
    /\ last_sample = 255

Playing == ipc \in {"loop", "control", "notes", "play"}

SomeVoiceActive ==
    \E i \in 0 .. (MAX_VOICES - 1) : is_voice_active(ivoices[i])

\* the byte at code_ptr starts a note: a short note or a long-note prefix
OnNoteByte ==
    /\ code_ptr < icode_size
    /\ IF code_ptr < icode_size
       THEN \/ ~is_control_command(object_code[code_ptr + 1])
            \/ is_long_note_command(object_code[code_ptr + 1])
       ELSE FALSE

\* C25: during playback the interpreter is never positioned on a note
\* byte with all four voices inactive.
C25_AsStated == (Playing /\ OnNoteByte) => SomeVoiceActive

\* the command process_pure_control_commands fetches next
Fetch(cmd) ==
    /\ ipc = "control"
    /\ code_ptr < icode_size
    /\ IF code_ptr < icode_size
       THEN object_code[code_ptr + 1] = cmd
       ELSE FALSE

CodeByte(i) == IF i < icode_size THEN object_code[i + 1] ELSE 0

\* the 16-bit operand of the command at code_ptr
Operand == CodeByte(code_ptr + 1) + 256 * CodeByte(code_ptr + 2)

JumpLoop == <<144, 0, 16, 1, 143, 64, 4, 0>>
CallLoop == <<32, 6, 0, 64, 0, 0, 48>>

\* C26: with a budget of n the first n JUMPs are executed, each taking one
\* from the budget, and the JUMP fetched with the budget at 0 ends the run
\* with success and renders nothing more; no other command, CALL and
\* RETURN included, changes the budget. The rest-and-jump loop plays
\* n + 1 rests of 6 samples; the call-and-jump loop ends on an empty stack.
C26_JumpBudget ==
    /\ [](config_max_jumps # JUMPS_UNLIMITED =>
            max_jumps \in 0 .. config_max_jumps)
    /\ [][(Fetch(CMD_JUMP) /\ max_jumps = 0) =>
            /\ ipc' = "done" /\ result' = "ok"
            /\ Rendered' = Rendered
            /\ max_jumps' = 0]_vars
    /\ [][(Fetch(CMD_JUMP) /\ max_jumps > 0) =>
            /\ max_jumps' = max_jumps - 1
            /\ Operand < icode_size =>
                 code_ptr' = Operand /\ ipc' = "control"]_vars
    /\ [][(~Fetch(CMD_JUMP) /\ ipc # "off") => max_jumps' = max_jumps]_vars
    /\ []((ipc = "done" /\ object_code = JumpLoop
              /\ config_max_jumps # JUMPS_UNLIMITED) =>
            /\ result = "ok"
            /\ samples = 6 * (config_max_jumps + 1)
            /\ Len(inote_log) = config_max_jumps + 1)
    /\ []((ipc = "done" /\ object_code = CallLoop) =>
            /\ result = "ok"
            /\ max_jumps = 0
            /\ call_stack = <<>>)

\* two jumps were taken, three rests played, the third JUMP ended the run
C26_Witness ==
    /\ object_code = JumpLoop
    /\ config_max_jumps = 2
    /\ max_jumps = 0
    /\ ipc = "done"
    /\ result = "ok"
    /\ code_ptr = 6
    /\ samples = 18

\* C27: a CALL at offset a with a valid target pushes a + 3, and a RETURN
\* pops the top of the stack into code_ptr, so the matching RETURN comes
\* back to a + 3 at the depth the CALL started from.
C27_AsStated ==
    /\ [][(Fetch(CMD_CALL) /\ stack_ptr < STACK_SIZE
              /\ Operand < icode_size) =>
            /\ call_stack' = Append(call_stack, code_ptr + 3)
            /\ code_ptr' = Operand]_vars
    /\ [][(Fetch(CMD_RETURN) /\ stack_ptr > 0) =>
            /\ code_ptr' = call_stack[stack_ptr]
            /\ call_stack' = SubSeq(call_stack, 1, stack_ptr - 1)]_vars

Failed == ipc = "done" /\ result = "fail"

\* C28: the call stack holds 0 .. 256 return addresses in every state; a
\* CALL at depth 256 pushes nothing and a RETURN at depth 0 consumes its
\* opcode and sets code_ptr to nothing else; both end the run with failure.
C28_StackBounds ==
    /\ [](stack_ptr \in 0 .. STACK_SIZE)
    /\ [][(Fetch(CMD_CALL) /\ stack_ptr = STACK_SIZE) =>
            /\ call_stack' = call_stack
            /\ Failed']_vars
    /\ [][(Fetch(CMD_RETURN) /\ stack_ptr = 0) =>
            /\ code_ptr' = code_ptr + 1
            /\ call_stack' = call_stack
            /\ Failed']_vars

\* CALL 0 at offset 0 has filled the stack and the 257th CALL has failed
C28_Witness ==
    /\ object_code = <<32, 0, 0>>
    /\ stack_ptr = STACK_SIZE
    /\ call_stack[STACK_SIZE] = 3
    /\ code_ptr = 1
    /\ Failed

\* what C29 says of a JUMP or CALL that is fetched
TargetRule ==
    IF Operand >= icode_size
    THEN Failed'
    ELSE code_ptr' = Operand /\ ipc' = "control" /\ result' = result

\* C29 as stated: every JUMP and every CALL with an operand >= code_size
\* ends the run with failure, and with an operand < code_size sets
\* code_ptr to the operand.
C29_AsStated ==
    [][(Fetch(CMD_JUMP) \/ Fetch(CMD_CALL)) => TargetRule]_vars

\* C29, amended: the same for a JUMP fetched while the jump budget is not
\* used up and for a CALL fetched below depth 256.
C29_TargetRange ==
    [][(\/ Fetch(CMD_JUMP) /\ max_jumps # 0
        \/ Fetch(CMD_CALL) /\ stack_ptr < STACK_SIZE) => TargetRule]_vars

\* JUMP to exactly code_size, within the budget, has failed
C29_Witness ==
    /\ object_code = <<64, 3, 0>>
    /\ config_max_jumps = 1
    /\ max_jumps = 0
    /\ code_ptr = 3
    /\ Failed

\* an active voice whose note has run out: the next note byte is for it
NoteExpected ==
    \E i \in 0 .. (MAX_VOICES - 1) :
        is_voice_active(ivoices[i]) /\ is_voice_expired(ivoices[i])

OnLongNotePrefix == Fetch(CMD_LONGNOTE_ABS) \/ Fetch(CMD_LONGNOTE_REL)

\* C30: when process_pure_control_commands comes to a long-note prefix
\* (0x60 or 0x70) while no active voice has an expired duration, the run
\* ends with a fatal error.
C30_AsStated == [][(OnLongNotePrefix /\ ~NoteExpected) => Failed']_vars

\* the log entries of the notes a step has assigned
NewNotes == (Len(inote_log) + 1) .. Len(inote_log')

IsShort(e) == e.cmd % 16 # 0
Nibble(e) == sign_extend_4bit(e.cmd \div 16)
SamePhase(v, w) == w.phase_int = v.phase_int /\ w.phase_frac = v.phase_frac

\* what C31 says of every kind of note but the repeated short note
OtherNotes(e, v, w) ==
    /\ (IsShort(e) /\ Nibble(e) = PITCH_REST) =>
          /\ w.freq_increment = 0
          /\ w.note_offset = v.note_offset
          /\ SamePhase(v, w)
    /\ (IsShort(e) /\ Nibble(e) \notin {0, PITCH_REST}) => SamePhase(v, w)
    /\ ~IsShort(e) => SamePhase(v, w)

\* C31 as stated: a short note with delta 0 leaves note_offset and
\* freq_increment as they were and zeroes the phase; no other note resets
\* the phase; a rest sets freq_increment to 0 and keeps note_offset.
C31_AsStated ==
    [][\A k \in NewNotes :
         LET e == inote_log'[k]
             v == ivoices[e.voice]
             w == ivoices'[e.voice]
         IN  /\ OtherNotes(e, v, w)
             /\ (IsShort(e) /\ Nibble(e) = 0) =>
                   /\ w.note_offset = v.note_offset
                   /\ w.freq_increment = v.freq_increment
                   /\ w.phase_int = 0 /\ w.phase_frac = 0]_vars

\* C31, amended: the short note with delta 0 sets freq_increment to the
\* table value of the unchanged note_offset, which is the old increment
\* unless the voice was silent.
C31_RepeatedNote ==
    [][\A k \in NewNotes :
         LET e == inote_log'[k]
             v == ivoices[e.voice]
             w == ivoices'[e.voice]
         IN  /\ OtherNotes(e, v, w)
             /\ (IsShort(e) /\ Nibble(e) = 0) =>
                   /\ w.note_offset = v.note_offset
                   /\ w.freq_increment =
                        get_frequency_increment(v.note_offset)
                   /\ v.freq_increment # 0 =>
                        w.freq_increment = v.freq_increment
                   /\ w.phase_int = 0 /\ w.phase_frac = 0]_vars

\* the note of RepeatedNote repeated while it sounds: the phase it had
\* reached is gone
C31_Witness ==
    /\ object_code = RepeatedNote
    /\ ipc = "play"
    /\ samples = 6
    /\ samples_generated = 0
    /\ Len(inote_log) = 2
    /\ inote_log[2].cmd = 15
    /\ ivoices[0].freq_increment = FREQUENCY_TABLE[13]
    /\ ivoices[0].phase_int = 0 /\ ivoices[0].phase_frac = 0

\* the voices after voice (vv & 3) got duration d and fell silent
VoiceSwitched(vv, d) ==
    ivoices' = [ivoices EXCEPT ![vv % 4] =
                   [@ EXCEPT !.duration = d, !.freq_increment = 0]]

\* C32: ACTIVATE vv sets voice vv & 3 to duration 0 and freq_increment 0,
\* DEACTIVATE vv to duration 0xFF and freq_increment 0; the two bytes are
\* consumed; the voice's phase, note_offset and wavetable_page, every
\* other voice, tempo and the call stack stay as they were.
C32_VoiceSwitch ==
    /\ [][(Fetch(CMD_ACTIVATE) /\ code_ptr + 1 < icode_size) =>
            /\ VoiceSwitched(CodeByte(code_ptr + 1), 0)
            /\ code_ptr' = code_ptr + 2
            /\ tempo' = tempo /\ call_stack' = call_stack
            /\ ipc' = "control"]_vars
    /\ [][(Fetch(CMD_DEACTIVATE) /\ code_ptr + 1 < icode_size) =>
            /\ VoiceSwitched(CodeByte(code_ptr + 1), VOICE_INACTIVE)
            /\ code_ptr' = code_ptr + 2
            /\ tempo' = tempo /\ call_stack' = call_stack
            /\ ipc' = "control"]_vars

\* DEACTIVATE 0 has silenced voice 0 in mid-phase, inside a subroutine,
\* after ACTIVATE 6 has switched voice 2 on
C32_Witness ==
    /\ object_code = VoiceControl
    /\ code_ptr = 15
    /\ ipc = "control"
    /\ call_stack = <<3>>
    /\ ivoices[0].duration = VOICE_INACTIVE
    /\ ivoices[0].freq_increment = 0
    /\ ivoices[0].note_offset = 24
    /\ Phase16(ivoices[0]) # 0
    /\ ivoices[2].duration = 0
    /\ tempo = 1

(* ---------------------------------------------------------------------- *)
(* Cancellation (SpecCancel)                                               *)
(* ---------------------------------------------------------------------- *)
\* C33: once running is false the interpreter leaves its main loop, it
\* returns success, and an event that begins after the flag was set gets
\* no sample.
C33_AsStated ==
    /\ ~running ~> ipc = "done"
    /\ [](~running /\ ipc = "done" => result = "ok")
    /\ [][(~running /\ ipc = "play" /\ samples_generated = 0) =>
            samples_generated' = 0]_vars

(* ---------------------------------------------------------------------- *)
(* The interpreter, continued (SpecInt)                                    *)
(* ---------------------------------------------------------------------- *)
\* a control byte with high nibble 0xA .. 0xF is fetched
FetchUndefined ==
    /\ ipc = "control"
    /\ code_ptr < icode_size
    /\ CodeByte(code_ptr) % 16 = 0
    /\ CodeByte(code_ptr) \div 16 >= 10

\* the run ends with failure and tempo, voices and sink are as before
StopsUnchanged ==
    /\ Failed'
    /\ tempo' = tempo
    /\ ivoices' = ivoices
    /\ Rendered' = Rendered

\* C34: TEMPO 0 and a control byte A0 .. F0 end the run with failure,
\* tempo and voices unchanged, and nothing is rendered afterwards (no step
\* follows the end of the run); tempo is at least 1 whenever an event is
\* rendered.
C34_FatalControl ==
    /\ [][(Fetch(CMD_TEMPO) /\ CodeByte(code_ptr + 1) = 0) =>
            StopsUnchanged]_vars
    /\ [][FetchUndefined => StopsUnchanged]_vars
    /\ [][ipc # "done"]_vars
    /\ [](ipc = "play" => tempo >= 1)
    /\ [](ipc # "off" => tempo >= 1)

\* TEMPO 0 after a rest played at tempo 3
C34_Witness ==
    /\ object_code = ZeroTempo
    /\ Failed
    /\ tempo = 3
    /\ code_ptr = 7
    /\ samples = 18
    /\ ivoices[0].duration = 6

\* C35: with a finite jump budget and no cancellation every run ends.
C35_AsStated == ipc # "off" ~> ipc = "done"

\* the time units of the latest of the first k logged notes that went to
\* voice i
RECURSIVE LastNoteDur(_, _)
LastNoteDur(i, k) ==
    IF k = 0 THEN 0
    ELSE IF inote_log[k].voice = i THEN inote_log[k].dur
    ELSE LastNoteDur(i, k - 1)

\* C36: when a voice fetches its next note, the events rendered since its
\* note was assigned add up to the note's DURATION_TABLE value, provided
\* the voice was not activated or deactivated in between.
C36_AsStated ==
    [][\A k \in NewNotes :
         LET i == inote_log'[k].voice
         IN  rung[i] >= 0 => rung[i] = LastNoteDur(i, Len(inote_log))]_vars

\* C37: every store into the image, the two stores of the ESB backpatch
\* included, is at an index below MAX_CODE_SIZE, and code_size never
\* exceeds MAX_CODE_SIZE.
C37_AsStated == code_size <= MAX_CODE_SIZE /\ stray = {}

\* the bytes the command or note that starts with byte b takes
InstrLen(b) ==
    IF ~is_control_command(b) THEN 1
    ELSE IF b \in {CMD_CALL, CMD_JUMP} \/ is_long_note_command(b) THEN 3
    ELSE IF b \in {CMD_TEMPO, CMD_SETVOICES, CMD_DEACTIVATE, CMD_ACTIVATE}
    THEN 2
    ELSE 1

\* the operands of the CALL and JUMP commands of img from offset i on
RECURSIVE JumpOperands(_, _)
JumpOperands(img, i) ==
    IF i >= Len(img) THEN {}
    ELSE (IF img[i + 1] \in {CMD_CALL, CMD_JUMP}
          THEN {(IF i + 1 < Len(img) THEN img[i + 2] ELSE 0)
                + 256 * (IF i + 2 < Len(img) THEN img[i + 3] ELSE 0)}
          ELSE {})
         \cup JumpOperands(img, i + InstrLen(img[i + 1]))

\* END was the last specification of the source file
LastIsEND ==
    \E k \in 1 .. Len(source) :
        /\ source[k][1] = "END"
        /\ \A j \in (k + 1) .. Len(source) : source[j][1] \in {"endline", "eof"}

\* the interpreter is about to execute a CALL or JUMP whose target is
\* outside the image
BadTarget ==
    /\ Fetch(CMD_CALL) \/ Fetch(CMD_JUMP)
    /\ Operand >= icode_size

\* C38 as stated: in the image of a compilation without error that END
\* has ended, the operand of every JMP, JSR and SUB is below the length of
\* the image.
C38_AsStated ==
    CompiledToEND => \A t \in JumpOperands(code, 0) : t < code_size

\* C38, with nothing behind END on its line: in the image of a compilation
\* without error whose last specification is END, the operand of every JMP, JSR and SUB is below the
\* length of the image, for every base address; and the interpreter never
\* comes to a CALL or JUMP of a compiled image with a target outside it.
C38_Operands ==
    /\ (CompiledToEND /\ LastIsEND) =>
            \A t \in JumpOperands(code, 0) : t < code_size
    /\ (ipc # "off" /\ end_flag) => ~BadTarget

\* a compiled SUB, JMP or JSR is executed by the interpreter
C38_Witness ==
    /\ CompiledToEND /\ LastIsEND
    /\ base_address = 65535
    /\ "SUB" \in ops_used /\ "ESB" \in ops_used
    /\ Fetch(CMD_JUMP)
    /\ Operand > 0

\* the Notes step starts by fetching a long note
LongNoteFetched ==
    /\ ipc = "notes"
    /\ NewNotes # {}
    /\ is_long_note_command(inote_log'[Len(inote_log) + 1].cmd)

\* C39: the wavetable_page of every voice is below num_wavetables in every
\* state of the interpreter; a long note whose waveform nibble is not
\* below num_wavetables gets the page num_wavetables - 1 and the duration
\* code 0 of a long note counts as 1; every note assigned has a duration
\* other than 0.
C39_WavetablePage ==
    /\ [](\A i \in 0 .. (MAX_VOICES - 1) :
            ivoices[i].wavetable_page < num_wavetables)
    /\ [][\A k \in NewNotes : inote_log'[k].dur > 0]_vars
    /\ [][LongNoteFetched =>
            LET e == inote_log'[Len(inote_log) + 1]
                wd == CodeByte(code_ptr + 2)
                nibble == wd \div 16
                dcode == IF wd % 16 = 0 THEN 1 ELSE wd % 16
            IN  /\ e.dur = DURATION_TABLE[dcode + 1]
                /\ ivoices'[e.voice].wavetable_page =
                      IF nibble >= num_wavetables THEN num_wavetables - 1
                      ELSE nibble]_vars

\* with two wavetables, a long note of waveform 3 and duration code 0 has
\* been assigned
C39_Witness ==
    /\ object_code = LongNotes
    /\ num_wavetables = 2
    /\ Len(inote_log) = 2
    /\ inote_log[2].dur = DURATION_TABLE[2]
    /\ ivoices[0].wavetable_page = 1
    /\ samples > 0

\* the command about to be executed is the last byte of the image: its
\* operand bytes are missing
LastByte(cmd) == Fetch(cmd) /\ code_ptr + 1 = icode_size

\* C40: the interpreter never reads the image at an index >= code_size,
\* also when code_ptr is a return address beyond the image; only a RETURN
\* takes code_ptr beyond code_size; a command whose operand bytes are
\* missing at the end of the image works with the operand 0 and leaves
\* code_ptr at code_size.
C40_ReadsInsideImage ==
    /\ [](max_read < icode_size)
    /\ [][(code_ptr' > icode_size /\ code_ptr' # code_ptr)
             => Fetch(CMD_RETURN)]_vars
    /\ [][/\ LastByte(CMD_ACTIVATE) =>
              ivoices'[0].duration = 0 /\ code_ptr' = icode_size
          /\ LastByte(CMD_DEACTIVATE) =>
              ivoices'[0].duration = VOICE_INACTIVE /\ code_ptr' = icode_size
          /\ LastByte(CMD_SETVOICES) =>
              num_active_voices' = 1 /\ code_ptr' = icode_size
          /\ LastByte(CMD_TEMPO) => Failed' /\ tempo' = tempo
          /\ (LastByte(CMD_JUMP) /\ max_jumps # 0) =>
              code_ptr' = 0 /\ ipc' = "control"
          /\ (LastByte(CMD_CALL) /\ stack_ptr < STACK_SIZE) =>
              code_ptr' = 0 /\ ipc' = "control"]_vars

\* a RETURN has taken code_ptr beyond the image and the run has ended
\* without another read
C40_Witness ==
    /\ object_code = ReturnBeyond
    /\ code_ptr > icode_size
    /\ ipc = "done"
    /\ result = "ok"
    /\ max_read = icode_size - 1

====
